---- MODULE Spec2Model ----
(***************************************************************************)
(* ContextManager of the Telegram YouTube summarizer bot                   *)
(* (src/src/components/ContextManager.ts): the per-user session map, the   *)
(* transcript cache, the per-user async-mutex table and the periodic       *)
(* cleanup of expired sessions.                                            *)
(*                                                                         *)
(* Execution model.  The program runs on the Node.js event loop.  A call   *)
(* of createSession / getSession / updateHistory / clearSession runs       *)
(* getUserLock and Mutex.acquire synchronously (Invoke), then the callback *)
(* handed to runExclusive runs in a later promise job (the ...Body         *)
(* actions; a callback holds no await, so it is one atomic step), and the  *)
(* finally-block of runExclusive releases the mutex in a further promise   *)
(* job (Release).  Promise jobs of different calls interleave freely.  The *)
(* setInterval callback is a timer task: the event loop starts it only     *)
(* when the promise-job queue is empty, and it runs to completion (Sweep). *)
(***************************************************************************)
EXTENDS Integers, Sequences, FiniteSets, TLC

\* ---------------------------------------------------------------- bounds
MaxTime == 2       \* the clock runs over 0..MaxTime
MaxAppends == 1    \* updateHistory calls issued in one behaviour of Spec
MaxHistoryAppends == 6  \* updateHistory calls issued in one behaviour of SpecHistory
maxVideos == 2     \* config.cache.maxVideos, scaled down from 1000
MaxPuts == 4       \* createSession calls run in one behaviour of SpecCache
MaxUrls == 3       \* YouTube links handled in one behaviour of SpecUrl
MaxChars == 9      \* longest transcript text handed to QAEngine.chunkTranscript
MaxWindow == 3     \* largest config.qa.chunkSize, scaled down from 500
MaxSegment == 4    \* largest chunkSize handed to TranscriptFetcher.chunkTranscript
MaxChunkList == 4  \* longest chunk list handed to QAEngine.findRelevantChunks

\* ------------------------------------------------------ program constants
ttlHours == 24
ttlDays == 7
maxHistoryPairs == 5
maxRelevantChunks == 3
videoIdLength == 11
maxRetries == 3

\* one clock unit is ttlHours hours, so ages are compared in hours
ClockStepHours == ttlHours

Users == {"u1", "u2"}
Videos == {"v1", "v2"}
\* calls of the four operations that may be in flight at once
Slots == {1, 2}
LockSerials == 1..(Cardinality(Slots) + 1)
LockIds == [user : Users, serial : LockSerials]
NoLock == [none |-> "lock"]

\* Transcript (models/index.ts): its video id and fetch time; the fields no
\* operation of the ContextManager reads (title, text, language, duration) and
\* Session.created_at, which is written once and never read, are left out

NoSession == [none |-> "session"]
Null == [none |-> "null"]
Void == [none |-> "void"]
Threw == [none |-> "error"]
NoTranscript == [none |-> "transcript"]
NoPair == [none |-> "pair"]
\* the URL handler of a user is not running
HandlerIdle == [pc |-> "idle", videoId |-> "", transcript |-> NoTranscript]
\* no function of QAEngine, TranscriptFetcher or MessageRouter was called yet
NoCall == [fn |-> "none", pc |-> "done"]
\* no synchronous call was made in the last step
NoEvent == [op |-> "none", key |-> "", ret |-> Void, log |-> ""]
\* what a handler sends to the user: bot.sendMessage(chatId, text)
Sent(u, text) == [op |-> "sendMessage", key |-> u, ret |-> Void, log |-> text]

VARIABLES
  sessions,         \* this.sessions: user id -> Session
  transcriptCache,  \* this.transcriptCache, in Map insertion order
  userLocks,        \* this.userLocks: user id -> Mutex object
  mutex,            \* the Mutex objects: locked flag and FIFO queue of waiters
  cleanupInterval,  \* this.cleanupInterval is set (the timer is armed)
  now,              \* the clock read by new Date() / Date.now()
  ops,              \* the calls in flight, one per slot
  nextQ,            \* number of updateHistory calls issued so far
  appended,         \* history variable: pairs appended to the user's current session
  issued,           \* history variable: questions of the updateHistory calls made
                    \* while the user's current session existed, in call order
  dirty,            \* history variable: the current session was created while an
                    \* updateHistory call for the user was still waiting to run
  last,             \* history variable: the synchronous call the last step was
                    \* (a sweep, stopCleanupTask, getCachedTranscript) and its result
  puts,             \* history variable, kept by SpecCache only: the keys handed to
                    \* cacheTranscript, in call order
  url,              \* handleYouTubeUrl (index.ts): where the handler of each user is
  fetched,          \* history variable: the video ids handed to fetchTranscript,
                    \* in call order
  pure              \* the last call of a function of QAEngine, TranscriptFetcher or
                    \* MessageRouter: its arguments and what it returned

vars == <<sessions, transcriptCache, userLocks, mutex, cleanupInterval, now, ops,
          nextQ, appended, issued, dirty, last, puts, url, fetched, pure>>

\* ---------------------------------------------------------------- helpers
Min(a, b) == IF a < b THEN a ELSE b

Range(s) == {s[k] : k \in 1..Len(s)}

\* Array.prototype.slice(-n)
SliceLast(s, n) ==
  IF Len(s) <= n THEN s ELSE SubSeq(s, Len(s) - n + 1, Len(s))

\* JavaScript truthiness of a string
Truthy(str) == str # ""

\* a slot with no call in it.  behind, pre and ret are records of the call kept
\* while it is in flight: the kind of the call that held the mutex when this one
\* had to queue ("none": it did not wait), the session its callback found, and
\* what the callback returned
Idle ==
  [kind |-> "none", user |-> "none", videoId |-> "", transcript |-> NoTranscript,
   pair |-> NoPair, pc |-> "idle", lock |-> NoLock, behind |-> "none",
   pre |-> NoSession, ret |-> Void]

NewMutex == [locked |-> FALSE, queue |-> <<>>]

InFlight(i) == ops[i].pc # "idle"

\* the call in slot i holds its mutex: from acquire to release
InCriticalSection(i) == ops[i].pc \in {"acquired", "ran"}

\* a timer task started whether or not promise jobs are pending
MicrotasksIgnored == TRUE

\* no promise job is pending: every call has run to its end
MicrotasksDrained == \A i \in Slots : ~InFlight(i)

\* an updateHistory call of user u that has not run its callback yet
PendingUpdate(u) ==
  \E i \in Slots : /\ ops[i].kind = "update"
                   /\ ops[i].user = u
                   /\ ops[i].pc \in {"waiting", "acquired"}

\* ------------------------------------------------------------ lock table
\* A Mutex object is named by the user it was made for and a serial number;
\* serial numbers of objects nothing refers to any more are used again.
LockInUse(l) ==
  \/ \E u \in Users : userLocks[u] = l
  \/ \E i \in Slots : ops[i].lock = l

\* new Mutex()
FreshLock(u) ==
  [user |-> u,
   serial |-> CHOOSE n \in LockSerials :
                /\ ~LockInUse([user |-> u, serial |-> n])
                /\ \A k \in LockSerials : k < n => LockInUse([user |-> u, serial |-> k])]

\* getUserLock without the table lookup: every call makes its own Mutex
getUserLockAlwaysNew(u) == FreshLock(u)

\* getUserLock with one Mutex for all users
getUserLockGlobal(u) ==
  IF \E w \in Users : userLocks[w] # NoLock
    THEN userLocks[CHOOSE w \in Users : userLocks[w] # NoLock]
    ELSE FreshLock(u)

\* getUserLock: the lock of the table, or a new Mutex put into the table
getUserLock(u) == IF userLocks[u] # NoLock THEN userLocks[u] ELSE FreshLock(u)

\* ------------------------------------------------------------------ cache
CacheKeys(c) == {c[k].key : k \in 1..Len(c)}

CacheIndex(c, key) == CHOOSE k \in 1..Len(c) : c[k].key = key

\* Map.prototype.set: an existing key keeps its place
MapSet(c, key, t) ==
  IF key \in CacheKeys(c)
    THEN [c EXCEPT ![CacheIndex(c, key)] = [key |-> key, value |-> t]]
    ELSE Append(c, [key |-> key, value |-> t])

\* cacheTranscript filing the transcript under its own video id
cacheTranscriptByVideoId(c, videoId, t) ==
  LET evicted == IF Len(c) >= maxVideos /\ Len(c) > 0 /\ Truthy(c[1].key)
                   THEN Tail(c)
                   ELSE c
  IN MapSet(evicted, t.video_id, t)

\* cacheTranscript evicting the newest entry, not the oldest
cacheTranscriptEvictLast(c, videoId, t) ==
  LET evicted == IF Len(c) >= maxVideos /\ Len(c) > 0
                   THEN SubSeq(c, 1, Len(c) - 1)
                   ELSE c
  IN MapSet(evicted, videoId, t)

\* cacheTranscript without the eviction
cacheTranscriptNoEvict(c, videoId, t) == MapSet(c, videoId, t)

cacheTranscript(c, videoId, t) ==
  LET evicted == IF Len(c) >= maxVideos /\ Len(c) > 0 /\ Truthy(c[1].key)
                   THEN Tail(c)
                   ELSE c
  IN MapSet(evicted, videoId, t)

\* Map.prototype.get: the transcript stored under key, or undefined
MapGet(c, key) ==
  IF key \in CacheKeys(c) THEN c[CacheIndex(c, key)].value ELSE NoTranscript

\* Map.prototype.delete
MapDelete(c, key) == SelectSeq(c, LAMBDA e : e.key # key)

\* age >= ttl for age > ttl
CacheExpiredAtTtl(t, time) == (time - t.fetched_at) * ClockStepHours >= ttlDays * 24

\* age > ttl, both in hours
CacheExpired(t, time) == (time - t.fetched_at) * ClockStepHours > ttlDays * 24

\* getCachedTranscript on the cache: an expired entry is deleted
getCachedTranscriptIn(c, videoId, time) ==
  LET transcript == MapGet(c, videoId)
  IN IF transcript # NoTranscript /\ CacheExpired(transcript, time)
       THEN MapDelete(c, videoId)
       ELSE c

\* what getCachedTranscript returns
getCachedTranscriptResult(c, videoId, time) ==
  LET transcript == MapGet(c, videoId)
  IN IF transcript = NoTranscript THEN Null
     ELSE IF CacheExpired(transcript, time) THEN Null
     ELSE transcript

\* what getCachedTranscript logs
getCachedTranscriptLog(c, videoId, time) ==
  LET transcript == MapGet(c, videoId)
  IN IF transcript = NoTranscript THEN ""
     ELSE IF CacheExpired(transcript, time) THEN "Cached transcript expired"
     ELSE "Transcript retrieved from cache"

\* ------------------------------------------------- the callbacks' effects
\* createSession keeping the history of the session it replaces
newSessionKeepingHistory(u, videoId, t, time) ==
  [user_id |-> u, video_id |-> videoId, transcript |-> t, chunks |-> <<>>,
   history |-> IF sessions[u] # NoSession THEN sessions[u].history ELSE <<>>,
   language |-> "en", last_accessed |-> time]

\* the Session object createSession builds
newSession(u, videoId, t, time) ==
  [user_id |-> u, video_id |-> videoId, transcript |-> t, chunks |-> <<>>,
   history |-> <<>>, language |-> "en", last_accessed |-> time]

\* this.sessions.set(userId, session)
createSessionIn(ss, u, videoId, t, time) ==
  [ss EXCEPT ![u] = newSession(u, videoId, t, time)]

\* getSession without the update of last_accessed
touchNothing(s, time) == s

\* last_accessed set from the wrong date field
touchFetchedAt(s, time) == [s EXCEPT !.last_accessed = s.transcript.fetched_at]

\* session.last_accessed = new Date()
touch(s, time) == [s EXCEPT !.last_accessed = time]

\* getSession's callback on the session map
getSessionIn(ss, u, time) ==
  IF ss[u] = NoSession THEN ss ELSE [ss EXCEPT ![u] = touch(@, time)]

\* getSession reading the transcript from the cache entry of the session's
\* video instead of the session's own reference
getSessionResultFromCache(ss, u, time) ==
  IF ss[u] = NoSession
    THEN Null
    ELSE [touch(ss[u], time) EXCEPT
            !.transcript = MapGet(transcriptCache, ss[u].video_id)]

\* what getSession's callback returns
getSessionResult(ss, u, time) ==
  IF ss[u] = NoSession THEN Null ELSE touch(ss[u], time)

\* slice(0, maxHistoryPairs) for slice(-maxHistoryPairs): the first pairs stay
trimHistoryKeepFirst(h) ==
  IF Len(h) > maxHistoryPairs THEN SubSeq(h, 1, maxHistoryPairs) ELSE h

\* keep only the last maxHistoryPairs pairs
trimHistory(h) ==
  IF Len(h) > maxHistoryPairs THEN SliceLast(h, maxHistoryPairs) ELSE h

\* push, trim, touch
pushHistory(s, qaPair, time) ==
  [s EXCEPT !.history = trimHistory(Append(@, qaPair)), !.last_accessed = time]

\* updateHistory writing back a history read before the mutex was taken: the
\* pair of a call that ran meanwhile is overwritten
updateHistoryInStale(ss, u, qaPair, time) ==
  LET waited == \E i \in Slots : /\ ops[i].kind = "update"
                                 /\ ops[i].user = u
                                 /\ ops[i].pc = "acquired"
                                 /\ ops[i].behind = "update"
      h == ss[u].history
  IN IF ss[u] = NoSession THEN ss
     ELSE IF waited /\ h # <<>>
       THEN [ss EXCEPT ![u].history = Append(SubSeq(h, 1, Len(h) - 1), qaPair),
                       ![u].last_accessed = time]
       ELSE [ss EXCEPT ![u].history = Append(h, qaPair), ![u].last_accessed = time]

\* updateHistory making a session when it finds none
updateHistoryInUpsert(ss, u, qaPair, time) ==
  IF ss[u] = NoSession
    THEN [ss EXCEPT ![u] = [user_id |-> u, video_id |-> "", transcript |-> NoTranscript,
                            chunks |-> <<>>, history |-> <<qaPair>>,
                            language |-> "en", last_accessed |-> time]]
    ELSE [ss EXCEPT ![u].history = Append(@, qaPair), ![u].last_accessed = time]

\* updateHistory's callback on the session map
updateHistoryIn(ss, u, qaPair, time) ==
  IF ss[u] = NoSession THEN ss ELSE [ss EXCEPT ![u] = pushHistory(@, qaPair, time)]

\* updateHistory throwing when it finds no session
updateHistoryResultThrowing(ss, u) == IF ss[u] = NoSession THEN Threw ELSE Void

\* how updateHistory's callback ends: it logs a warning and returns
updateHistoryResult(ss, u) == Void

\* this.sessions.clear() for this.sessions.delete(userId)
clearSessionInAll(ss, u) == [w \in Users |-> NoSession]

\* clearSession without the delete
clearSessionInKeep(ss, u) == ss

\* this.sessions.delete(userId)
clearSessionIn(ss, u) == [ss EXCEPT ![u] = NoSession]

\* ------------------------------------------------------------------ state
Init ==
  /\ sessions = [u \in Users |-> NoSession]
  /\ transcriptCache = <<>>
  /\ userLocks = [u \in Users |-> NoLock]
  /\ mutex = [l \in LockIds |-> NewMutex]
  /\ cleanupInterval = TRUE
  /\ now = 0
  /\ ops = [i \in Slots |-> Idle]
  /\ nextQ = 0
  /\ appended = [u \in Users |-> <<>>]
  /\ issued = [u \in Users |-> <<>>]
  /\ dirty = [u \in Users |-> FALSE]
  /\ last = NoEvent
  /\ puts = <<>>
  /\ url = [u \in Users |-> HandlerIdle]
  /\ fetched = <<>>
  /\ pure = NoCall

\* ------------------------------------------------- Mutex (async-mutex)
\* the kind of the call that holds mutex l
HolderKind(l) ==
  LET holders == {j \in Slots : ops[j].lock = l /\ InCriticalSection(j)}
  IN IF holders = {} THEN "none" ELSE ops[CHOOSE j \in holders : TRUE].kind

\* The synchronous head of an operation: getUserLock, then runExclusive up to
\* its first await; acquire takes a free mutex at once, else it queues the call.
\* (A call takes the lowest free slot: slots are interchangeable.)
Call(i, op) ==
  LET u == op.user
      l == getUserLock(u)
      m == IF LockInUse(l) THEN mutex[l] ELSE NewMutex
  IN /\ ops[i] = Idle
     /\ \A k \in Slots : k < i => InFlight(k)
     /\ userLocks' = [userLocks EXCEPT ![u] = l]
     /\ IF m.locked
          THEN /\ mutex' = [mutex EXCEPT ![l] = [m EXCEPT !.queue = Append(@, i)]]
               /\ ops' = [ops EXCEPT ![i] =
                            [op EXCEPT !.pc = "waiting", !.lock = l,
                                       !.behind = HolderKind(l)]]
          ELSE /\ mutex' = [mutex EXCEPT ![l] = [m EXCEPT !.locked = TRUE]]
               /\ ops' = [ops EXCEPT ![i] = [op EXCEPT !.pc = "acquired", !.lock = l]]

\* a release that is skipped when the callback returned early because the
\* session was missing
ReleaseUnlessMissing(i) ==
  LET l == ops[i].lock
      q == mutex[l].queue
  IN /\ ops[i].pc = "ran"
     /\ ~(ops[i].kind = "get" /\ ops[i].pre = NoSession)
     /\ IF q = <<>>
          THEN /\ mutex' = [mutex EXCEPT ![l] = NewMutex]
               /\ ops' = [ops EXCEPT ![i] = Idle]
          ELSE /\ mutex' = [mutex EXCEPT ![l].queue = Tail(q)]
               /\ ops' = [ops EXCEPT ![i] = Idle, ![Head(q)].pc = "acquired"]
     /\ UNCHANGED <<sessions, transcriptCache, userLocks, cleanupInterval, now,
                    nextQ, appended, issued, dirty>>

\* finally { release() }: the head of the queue takes the mutex, if there is one
Release(i) ==
  LET l == ops[i].lock
      q == mutex[l].queue
  IN /\ ops[i].pc = "ran"
     /\ IF q = <<>>
          THEN /\ mutex' = [mutex EXCEPT ![l] = NewMutex]
               /\ ops' = [ops EXCEPT ![i] = Idle]
          ELSE /\ mutex' = [mutex EXCEPT ![l].queue = Tail(q)]
               /\ ops' = [ops EXCEPT ![i] = Idle, ![Head(q)].pc = "acquired"]
     /\ UNCHANGED <<sessions, transcriptCache, userLocks, cleanupInterval, now,
                    nextQ, appended, issued, dirty>>

\* ------------------------------------------------------------ operations
createSession(i, u, videoId, t) ==
  /\ Call(i, [Idle EXCEPT !.kind = "create", !.user = u, !.videoId = videoId,
                          !.transcript = t])
  /\ UNCHANGED <<sessions, transcriptCache, cleanupInterval, now, nextQ, appended,
                 issued, dirty>>

createSessionBody(i) ==
  LET u == ops[i].user
  IN /\ ops[i].kind = "create"
     /\ ops[i].pc = "acquired"
     /\ sessions' = createSessionIn(sessions, u, ops[i].videoId, ops[i].transcript, now)
     /\ transcriptCache' =
          cacheTranscript(transcriptCache, ops[i].videoId, ops[i].transcript)
     /\ ops' = [ops EXCEPT ![i].pc = "ran", ![i].pre = sessions[u],
                           ![i].ret = sessions'[u]]
     /\ appended' = [appended EXCEPT ![u] = <<>>]
     /\ issued' = [issued EXCEPT ![u] = <<>>]
     /\ dirty' = [dirty EXCEPT ![u] = PendingUpdate(u)]
     /\ UNCHANGED <<userLocks, mutex, cleanupInterval, now, nextQ>>

getSession(i, u) ==
  /\ Call(i, [Idle EXCEPT !.kind = "get", !.user = u])
  /\ UNCHANGED <<sessions, transcriptCache, cleanupInterval, now, nextQ, appended,
                 issued, dirty>>

getSessionBody(i) ==
  LET u == ops[i].user
  IN /\ ops[i].kind = "get"
     /\ ops[i].pc = "acquired"
     /\ sessions' = getSessionIn(sessions, u, now)
     /\ ops' = [ops EXCEPT ![i].pc = "ran", ![i].pre = sessions[u],
                           ![i].ret = getSessionResult(sessions, u, now)]
     /\ UNCHANGED <<transcriptCache, userLocks, mutex, cleanupInterval, now, nextQ,
                    appended, issued, dirty>>

updateHistory(i, u, answer) ==
  /\ nextQ' = nextQ + 1
  /\ Call(i, [Idle EXCEPT !.kind = "update", !.user = u,
                          !.pair = [question |-> nextQ + 1, answer |-> answer]])
  /\ issued' = IF sessions[u] # NoSession
                 THEN [issued EXCEPT ![u] = Append(@, nextQ + 1)]
                 ELSE issued
  /\ UNCHANGED <<sessions, transcriptCache, cleanupInterval, now, appended, dirty>>

updateHistoryBody(i) ==
  LET u == ops[i].user
      qaPair == [question |-> ops[i].pair.question, answer |-> ops[i].pair.answer,
                 timestamp |-> now]
  IN /\ ops[i].kind = "update"
     /\ ops[i].pc = "acquired"
     /\ sessions' = updateHistoryIn(sessions, u, qaPair, now)
     /\ ops' = [ops EXCEPT ![i].pc = "ran", ![i].ret = updateHistoryResult(sessions, u)]
     /\ appended' = IF sessions[u] = NoSession
                      THEN appended
                      ELSE [appended EXCEPT ![u] = Append(@, qaPair)]
     /\ UNCHANGED <<transcriptCache, userLocks, mutex, cleanupInterval, now, nextQ,
                    issued, dirty>>

clearSession(i, u) ==
  /\ Call(i, [Idle EXCEPT !.kind = "clear", !.user = u])
  /\ UNCHANGED <<sessions, transcriptCache, cleanupInterval, now, nextQ, appended,
                 issued, dirty>>

clearSessionBody(i) ==
  LET u == ops[i].user
  IN /\ ops[i].kind = "clear"
     /\ ops[i].pc = "acquired"
     /\ sessions' = clearSessionIn(sessions, u)
     /\ ops' = [ops EXCEPT ![i].pc = "ran", ![i].pre = sessions[u]]
     /\ appended' = [appended EXCEPT ![u] = <<>>]
     /\ issued' = [issued EXCEPT ![u] = <<>>]
     /\ dirty' = [dirty EXCEPT ![u] = FALSE]
     /\ UNCHANGED <<transcriptCache, userLocks, mutex, cleanupInterval, now, nextQ>>

\* getCachedTranscript: a synchronous call, made at any time
getCachedTranscript(videoId) ==
  /\ transcriptCache' = getCachedTranscriptIn(transcriptCache, videoId, now)
  /\ last' = [op |-> "getCached", key |-> videoId,
              ret |-> getCachedTranscriptResult(transcriptCache, videoId, now),
              log |-> getCachedTranscriptLog(transcriptCache, videoId, now)]
  /\ UNCHANGED <<sessions, userLocks, mutex, cleanupInterval, now, ops, nextQ,
                 appended, issued, dirty, puts, url, fetched, pure>>

\* ---------------------------------------------------------------- cleanup
\* the ttl taken for days: age > ttl * 24
ExpiredAfterDays(s) == (now - s.last_accessed) * ClockStepHours > ttlHours * 24

\* age >= ttl for age > ttl
ExpiredAtTtl(s) == (now - s.last_accessed) * ClockStepHours >= ttlHours

\* age > ttl, both in hours
Expired(s) == (now - s.last_accessed) * ClockStepHours > ttlHours

\* the users whose mutex cleanupExpiredSessions acquires while it looks at their
\* session: it calls neither getUserLock nor runExclusive
cleanupLocks == {}

\* The setInterval callback, cleanupExpiredSessions.  It is a timer task: it
\* starts with no promise job pending and runs to completion.
cleanupExpiredSessions ==
  LET gone == {u \in Users : sessions[u] # NoSession /\ Expired(sessions[u])}
  IN /\ cleanupInterval
     /\ MicrotasksDrained
     /\ sessions' = [u \in Users |-> IF u \in gone THEN NoSession ELSE sessions[u]]
     /\ userLocks' = [u \in Users |-> IF u \in gone THEN NoLock ELSE userLocks[u]]
     /\ appended' = [u \in Users |-> IF u \in gone THEN <<>> ELSE appended[u]]
     /\ issued' = [u \in Users |-> IF u \in gone THEN <<>> ELSE issued[u]]
     /\ dirty' = [u \in Users |-> IF u \in gone THEN FALSE ELSE dirty[u]]
     /\ last' = [NoEvent EXCEPT !.op = "sweep", !.ret = gone]
     /\ UNCHANGED <<transcriptCache, mutex, cleanupInterval, now, ops, nextQ, puts, url, fetched, pure>>

\* stopCleanupTask forgetting the timer
stopCleanupTaskInKeep(armed) == armed

\* clearInterval(this.cleanupInterval); this.cleanupInterval = null
stopCleanupTaskIn(armed) == IF armed THEN FALSE ELSE armed

\* stopCleanupTask: a synchronous call, made at any time
stopCleanupTask ==
  /\ cleanupInterval' = stopCleanupTaskIn(cleanupInterval)
  /\ last' = [NoEvent EXCEPT !.op = "stop"]
  /\ UNCHANGED <<sessions, transcriptCache, userLocks, mutex, now, ops, nextQ,
                 appended, issued, dirty, puts, url, fetched, pure>>

Tick ==
  /\ now' = now + 1
  /\ last' = NoEvent
  /\ UNCHANGED <<sessions, transcriptCache, userLocks, mutex, cleanupInterval, ops,
                 nextQ, appended, issued, dirty, puts, url, fetched, pure>>

\* ------------------------------------------- handleYouTubeUrl (index.ts)
\* the handler awaiting nothing: `await` left out, the caller goes on at once
NotAwaited(u, kind) == FALSE

\* a call of `kind` made for user u has not returned to its caller yet
Awaited(u, kind) ==
  \E i \in Slots : ops[i].kind = kind /\ ops[i].user = u /\ ops[i].pc # "idle"

\* links whose handler has started or finished its fetchTranscript call
UrlsHandled ==
  Len(fetched) + Cardinality({u \in Users : url[u].pc = "fetching"})

\* the handler starts for a link user u sent: it sends the processing message
handleYouTubeUrl(u, videoId) ==
  /\ url[u].pc = "idle"
  /\ url' = [url EXCEPT ![u] = [HandlerIdle EXCEPT !.pc = "fetching",
                                                   !.videoId = videoId]]
  /\ last' = NoEvent
  /\ UNCHANGED <<sessions, transcriptCache, userLocks, mutex, cleanupInterval, now,
                 ops, nextQ, appended, issued, dirty, puts, fetched, pure>>

\* the handler going on to createSession although fetchTranscript threw
fetchTranscriptUncaught(u) ==
  /\ url[u].pc = "fetching"
  /\ fetched' = Append(fetched, url[u].videoId)
  /\ \E ok \in BOOLEAN :
       /\ url' = [url EXCEPT ![u] =
                    [@ EXCEPT !.pc = "fetched",
                              !.transcript = IF ok
                                               THEN [video_id |-> url[u].videoId,
                                                     fetched_at |-> now]
                                               ELSE NoTranscript]]
       /\ last' = IF ok THEN NoEvent ELSE Sent(u, "error")
  /\ UNCHANGED <<sessions, transcriptCache, userLocks, mutex, cleanupInterval, now,
                 ops, nextQ, appended, issued, dirty, puts, pure>>

\* transcriptFetcher.fetchTranscript(videoId), called by the handler without a
\* look into the transcript cache: it returns a transcript fetched now, or it
\* throws and the handler answers with the error message
fetchTranscript(u) ==
  /\ url[u].pc = "fetching"
  /\ fetched' = Append(fetched, url[u].videoId)
  /\ \E ok \in BOOLEAN :
       /\ url' = [url EXCEPT ![u] =
                    IF ok
                      THEN [@ EXCEPT !.pc = "fetched",
                                     !.transcript = [video_id |-> url[u].videoId,
                                                     fetched_at |-> now]]
                      ELSE HandlerIdle]
       /\ last' = IF ok THEN NoEvent ELSE Sent(u, "error")
  /\ UNCHANGED <<sessions, transcriptCache, userLocks, mutex, cleanupInterval, now,
                 ops, nextQ, appended, issued, dirty, puts, pure>>

\* the handler calls contextManager.getSession(userId) for the language
handlerGetSession(u) ==
  /\ url[u].pc = "fetched"
  /\ \E i \in Slots : getSession(i, u)
  /\ url' = [url EXCEPT ![u].pc = "getting"]
  /\ last' = NoEvent
  /\ UNCHANGED <<puts, fetched, pure>>

\* getSession has returned: the handler calls
\* contextManager.createSession(userId, videoId, transcript)
handlerCreateSession(u) ==
  /\ url[u].pc = "getting"
  /\ ~Awaited(u, "get")
  /\ \E i \in Slots : createSession(i, u, url[u].videoId, url[u].transcript)
  /\ url' = [url EXCEPT ![u].pc = "creating"]
  /\ last' = NoEvent
  /\ UNCHANGED <<puts, fetched, pure>>

\* createSession has returned: the handler generates and sends the summary
handlerSummary(u) ==
  /\ url[u].pc = "creating"
  /\ ~Awaited(u, "create")
  /\ url' = [url EXCEPT ![u] = HandlerIdle]
  /\ last' = NoEvent
  /\ UNCHANGED <<sessions, transcriptCache, userLocks, mutex, cleanupInterval, now,
                 ops, nextQ, appended, issued, dirty, puts, fetched, pure>>

\* ------------------------------------------- QAEngine.chunkTranscript
\* A text is the sequence of its characters, a word one too.
Chars == {"w", " "}
Texts == UNION {[1..k -> Chars] : k \in 0..MaxChars}

\* config.qa.chunkSize and config.qa.chunkOverlap, scaled down from 500 and 50:
\* the settings with an overlap smaller than the chunk size, and all of them
ValidConfigs ==
  {c \in [chunkSize : 1..MaxWindow, chunkOverlap : 0..MaxWindow] :
     c.chunkOverlap < c.chunkSize}
AllConfigs == [chunkSize : 1..MaxWindow, chunkOverlap : 0..MaxWindow]

\* the most iterations of the while loop that are followed
MaxChunks == MaxChars + 2

\* text.split(/\s+/): the pieces between the maximal runs of whitespace; a run
\* at the start or the end of the text leaves an empty piece there, and the
\* empty text is one empty piece
RECURSIVE splitFrom(_, _, _, _)
splitFrom(text, k, word, words) ==
  IF k > Len(text)
    THEN Append(words, word)
    ELSE IF text[k] = " "
           THEN IF k > 1 /\ text[k - 1] = " "
                  THEN splitFrom(text, k + 1, word, words)
                  ELSE splitFrom(text, k + 1, <<>>, Append(words, word))
           ELSE splitFrom(text, k + 1, Append(word, text[k]), words)

split(text) == splitFrom(text, 1, <<>>, <<>>)

\* words.join(' ')
RECURSIVE join(_)
join(words) ==
  IF words = <<>> THEN <<>>
  ELSE IF Len(words) = 1 THEN words[1]
  ELSE words[1] \o <<" ">> \o join(Tail(words))

\* Array.prototype.slice(start, end) over 0-based indexes: a negative index
\* counts from the end
sliceIndex(i, n) == IF i < 0 THEN (IF n + i < 0 THEN 0 ELSE n + i) ELSE Min(i, n)
slice(s, start, end) ==
  LET a == sliceIndex(start, Len(s))
      b == sliceIndex(end, Len(s))
  IN IF a >= b THEN <<>> ELSE SubSeq(s, a + 1, b)

\* the call has just read the configuration and split the text
chunkTranscriptStart(cfg, text) ==
  [fn |-> "chunkTranscript", chunkSize |-> cfg.chunkSize,
   chunkOverlap |-> cfg.chunkOverlap, text |-> text, words |-> split(text),
   startIndex |-> 0, chunks |-> <<>>, pc |-> "loop"]

\* one test of the while condition and, if it holds, one run of the loop body
chunkIterationNoOverlap(p) ==
  IF ~(p.startIndex < Len(p.words))
    THEN [p EXCEPT !.pc = "done"]
    ELSE LET endIndex == Min(p.startIndex + p.chunkSize, Len(p.words))
             chunkWords == slice(p.words, p.startIndex, endIndex)
         IN [p EXCEPT !.chunks = Append(@, [text |-> join(chunkWords),
                                            startIndex |-> p.startIndex,
                                            endIndex |-> endIndex]),
                      !.startIndex = @ + p.chunkSize,
                      !.pc = IF endIndex = Len(p.words) THEN "done" ELSE "loop"]

chunkIterationNoBreak(p) ==
  IF ~(p.startIndex < Len(p.words))
    THEN [p EXCEPT !.pc = "done"]
    ELSE LET endIndex == Min(p.startIndex + p.chunkSize, Len(p.words))
             chunkWords == slice(p.words, p.startIndex, endIndex)
         IN [p EXCEPT !.chunks = Append(@, [text |-> join(chunkWords),
                                            startIndex |-> p.startIndex,
                                            endIndex |-> endIndex]),
                      !.startIndex = @ + p.chunkSize - p.chunkOverlap]

chunkIteration(p) ==
  IF ~(p.startIndex < Len(p.words))
    THEN [p EXCEPT !.pc = "done"]
    ELSE LET endIndex == Min(p.startIndex + p.chunkSize, Len(p.words))
             chunkWords == slice(p.words, p.startIndex, endIndex)
         IN [p EXCEPT !.chunks = Append(@, [text |-> join(chunkWords),
                                            startIndex |-> p.startIndex,
                                            endIndex |-> endIndex]),
                      !.startIndex = @ + p.chunkSize - p.chunkOverlap,
                      !.pc = IF endIndex = Len(p.words) THEN "done" ELSE "loop"]

\* the configuration is loaded and no function was called yet; the functions
\* keep no state, so one call per behaviour shows all a call can do
Loaded == pure.fn = "config"

\* qaEngine.chunkTranscript(text) is called: it reads config.qa and splits the
\* text into words
chunkTranscript(text) ==
  /\ Loaded
  /\ pure' = chunkTranscriptStart(pure, text)
  /\ last' = NoEvent
  /\ UNCHANGED <<sessions, transcriptCache, userLocks, mutex, cleanupInterval, now,
                 ops, nextQ, appended, issued, dirty, puts, url, fetched>>

\* the while loop of chunkTranscript, one iteration at a time; it returns the
\* chunks when the loop is left
chunkTranscriptLoop ==
  /\ pure.fn = "chunkTranscript"
  /\ pure.pc = "loop"
  /\ Len(pure.chunks) < MaxChunks
  /\ pure' = chunkIteration(pure)
  /\ last' = NoEvent
  /\ UNCHANGED <<sessions, transcriptCache, userLocks, mutex, cleanupInterval, now,
                 ops, nextQ, appended, issued, dirty, puts, url, fetched>>

\* ------------------------------------ TranscriptFetcher.chunkTranscript
\* text.substring(start, end) over 0-based indexes, for 0 <= start <= end
substring(text, start, end) ==
  SubSeq(text, Min(start, Len(text)) + 1, Min(end, Len(text)))

\* the for loop: the chunks pushed from index i on
RECURSIVE segmentsFromSkipping(_, _, _)
segmentsFromSkipping(text, i, chunkSize) ==
  IF ~(i < Len(text)) THEN <<>>
  ELSE <<substring(text, i, i + chunkSize)>>
         \o segmentsFromSkipping(text, i + chunkSize + 1, chunkSize)

RECURSIVE segmentsFrom(_, _, _)
segmentsFrom(text, i, chunkSize) ==
  IF ~(i < Len(text)) THEN <<>>
  ELSE <<substring(text, i, i + chunkSize)>>
         \o segmentsFrom(text, i + chunkSize, chunkSize)

\* what chunkTranscript(transcript, chunkSize) returns for transcript.text
segments(text, chunkSize) ==
  IF Len(text) <= chunkSize THEN <<text>> ELSE segmentsFrom(text, 0, chunkSize)

\* transcriptFetcher.chunkTranscript(transcript, chunkSize) is called
fetcherChunkTranscript(text, chunkSize) ==
  /\ Loaded
  /\ pure' = [fn |-> "fetcherChunkTranscript", pc |-> "done", text |-> text,
              chunkSize |-> chunkSize, ret |-> segments(text, chunkSize)]
  /\ last' = NoEvent
  /\ UNCHANGED <<sessions, transcriptCache, userLocks, mutex, cleanupInterval, now,
                 ops, nextQ, appended, issued, dirty, puts, url, fetched>>

\* ---------------------------------------- QAEngine.findRelevantChunks
UpperCase == <<"A", "B", "C", "D", "E", "F", "G", "H", "I", "J", "K", "L", "M", "N", "O", "P", "Q", "R", "S", "T", "U", "V", "W", "X", "Y", "Z">>
LowerCase == <<"a", "b", "c", "d", "e", "f", "g", "h", "i", "j", "k", "l", "m", "n", "o", "p", "q", "r", "s", "t", "u", "v", "w", "x", "y", "z">>
Digits == {"0", "1", "2", "3", "4", "5", "6", "7", "8", "9"}

\* the characters the regular expression class \w matches
WordChars == Range(UpperCase) \cup Range(LowerCase) \cup Digits \cup {"_"}
IsWordChar(c) == c \in WordChars

\* String.prototype.toLowerCase
toLowerCase(text) ==
  [k \in 1..Len(text) |->
     IF \E n \in 1..Len(UpperCase) : UpperCase[n] = text[k]
       THEN LowerCase[CHOOSE n \in 1..Len(UpperCase) : UpperCase[n] = text[k]]
       ELSE text[k]]

\* text.replace(/[^\w\s]/g, ' ')
stripPunctuation(text) ==
  [k \in 1..Len(text) |-> IF IsWordChar(text[k]) \/ text[k] = " " THEN text[k] ELSE " "]

stopWords ==
  {<<"a">>, <<"a", "n">>, <<"t", "h", "e">>, <<"i", "s">>, <<"a", "r", "e">>,
   <<"w", "a", "s">>, <<"w", "e", "r", "e">>, <<"b", "e">>, <<"b", "e", "e", "n">>,
   <<"b", "e", "i", "n", "g">>, <<"h", "a", "v", "e">>, <<"h", "a", "s">>,
   <<"h", "a", "d">>, <<"d", "o">>, <<"d", "o", "e", "s">>, <<"d", "i", "d">>,
   <<"w", "i", "l", "l">>, <<"w", "o", "u", "l", "d">>, <<"c", "o", "u", "l", "d">>,
   <<"s", "h", "o", "u", "l", "d">>, <<"m", "a", "y">>, <<"m", "i", "g", "h", "t">>,
   <<"c", "a", "n">>, <<"i", "n">>, <<"o", "n">>, <<"a", "t">>, <<"t", "o">>,
   <<"f", "o", "r">>, <<"o", "f">>, <<"w", "i", "t", "h">>, <<"b", "y">>,
   <<"f", "r", "o", "m">>, <<"a", "b", "o", "u", "t">>, <<"w", "h", "a", "t">>,
   <<"w", "h", "e", "n">>, <<"w", "h", "e", "r", "e">>, <<"w", "h", "o">>,
   <<"h", "o", "w">>, <<"w", "h", "y">>, <<"w", "h", "i", "c", "h">>,
   <<"t", "h", "i", "s">>, <<"t", "h", "a", "t">>, <<"t", "h", "e", "s", "e">>,
   <<"t", "h", "o", "s", "e">>, <<"i">>, <<"y", "o", "u">>, <<"h", "e">>,
   <<"s", "h", "e">>, <<"i", "t">>, <<"w", "e">>, <<"t", "h", "e", "y">>,
   <<"m", "e">>, <<"h", "i", "m">>, <<"h", "e", "r">>, <<"u", "s">>,
   <<"t", "h", "e", "m">>}

\* [...new Set(words)]: the first occurrence of each word, in order
RECURSIVE unique(_)
unique(words) ==
  IF words = <<>> THEN <<>>
  ELSE LET init == SubSeq(words, 1, Len(words) - 1)
           w == words[Len(words)]
       IN IF w \in Range(init) THEN unique(init) ELSE Append(unique(init), w)

extractKeywords(text) ==
  unique(SelectSeq(split(stripPunctuation(toLowerCase(text))),
                   LAMBDA word : Len(word) > 2 /\ word \notin stopWords))

\* chunkText.match(new RegExp('\\b' + word + '\\b', 'g')): the places where the
\* word stands with no \w character right before it and none right after it
matches(chunkText, word) ==
  {k \in 1..Len(chunkText) :
     LET e == k + Len(word) - 1
     IN /\ e <= Len(chunkText)
        /\ SubSeq(chunkText, k, e) = word
        /\ k = 1 \/ ~IsWordChar(chunkText[k - 1])
        /\ e = Len(chunkText) \/ ~IsWordChar(chunkText[e + 1])}

\* questionWords.forEach: score += matches.length
RECURSIVE scoreOf(_, _)
scoreOf(chunkText, questionWords) ==
  IF questionWords = <<>> THEN 0
  ELSE Cardinality(matches(chunkText, Head(questionWords)))
         + scoreOf(chunkText, Tail(questionWords))

\* scoredChunks.sort((a, b) => b.score - a.score): Array.prototype.sort is
\* stable, so chunks of equal score keep their order
RECURSIVE sortUnstable(_)
sortUnstable(scored) ==
  IF scored = <<>> THEN <<>>
  ELSE LET sorted == sortUnstable(SubSeq(scored, 1, Len(scored) - 1))
           x == scored[Len(scored)]
           at == Cardinality({i \in 1..Len(sorted) : sorted[i].score > x.score})
       IN SubSeq(sorted, 1, at) \o <<x>> \o SubSeq(sorted, at + 1, Len(sorted))

RECURSIVE sort(_)
sort(scored) ==
  IF scored = <<>> THEN <<>>
  ELSE LET sorted == sort(SubSeq(scored, 1, Len(scored) - 1))
           x == scored[Len(scored)]
           at == Cardinality({i \in 1..Len(sorted) : sorted[i].score >= x.score})
       IN SubSeq(sorted, 1, at) \o <<x>> \o SubSeq(sorted, at + 1, Len(sorted))

\* the branch taken when the question has keywords
rankAll(questionWords, chunks) ==
  LET scoredChunks == [i \in 1..Len(chunks) |->
                         [chunk |-> chunks[i],
                          score |-> scoreOf(toLowerCase(chunks[i].text), questionWords)]]
      sorted == sort(scoredChunks)
  IN [i \in 1..Len(sorted) |-> sorted[i].chunk]

rankUncut(questionWords, chunks) ==
  LET scoredChunks == [i \in 1..Len(chunks) |->
                         [chunk |-> chunks[i],
                          score |-> scoreOf(toLowerCase(chunks[i].text), questionWords)]]
      relevant == SelectSeq(sort(scoredChunks), LAMBDA sc : sc.score > 0)
  IN [i \in 1..Len(relevant) |-> relevant[i].chunk]

rank(questionWords, chunks) ==
  LET scoredChunks == [i \in 1..Len(chunks) |->
                         [chunk |-> chunks[i],
                          score |-> scoreOf(toLowerCase(chunks[i].text), questionWords)]]
      relevant == slice(SelectSeq(sort(scoredChunks), LAMBDA sc : sc.score > 0),
                        0, maxRelevantChunks)
  IN [i \in 1..Len(relevant) |-> relevant[i].chunk]

\* the branch taken when the question has no keyword
firstChunksNone(chunks) == <<>>

firstChunks(chunks) == slice(chunks, 0, maxRelevantChunks)

findRelevantChunksIn(question, chunks) ==
  LET questionWords == extractKeywords(toLowerCase(question))
  IN IF Len(questionWords) = 0
       THEN firstChunks(chunks)
       ELSE rank(questionWords, chunks)

\* the questions asked: "", "Is it a?", "Cat?", "cat dog cat", "What bird"
Questions ==
  {<<>>,
   <<"I", "s", " ", "i", "t", " ", "a", "?">>,
   <<"C", "a", "t", "?">>,
   <<"c", "a", "t", " ", "d", "o", "g", " ", "c", "a", "t">>,
   <<"W", "h", "a", "t", " ", "b", "i", "r", "d">>}

\* the texts of the chunks: "cat", "Cat cat dog", "cats", "dog. CAT-cat"
ChunkTexts ==
  {<<"c", "a", "t">>,
   <<"C", "a", "t", " ", "c", "a", "t", " ", "d", "o", "g">>,
   <<"c", "a", "t", "s">>,
   <<"d", "o", "g", ".", " ", "C", "A", "T", "-", "c", "a", "t">>}

\* a chunk of the text, as chunkTranscript makes it for a text that fits in
\* one chunk
ChunkOf(text) == [text |-> text, startIndex |-> 0, endIndex |-> Len(split(text))]

ChunkLists ==
  UNION {[1..n -> {ChunkOf(text) : text \in ChunkTexts}] : n \in 0..MaxChunkList}

\* qaEngine.findRelevantChunks(question, chunks) is called
findRelevantChunks(question, chunks) ==
  /\ Loaded
  /\ pure' = [fn |-> "findRelevantChunks", pc |-> "done", question |-> question,
              chunks |-> chunks, ret |-> findRelevantChunksIn(question, chunks)]
  /\ last' = NoEvent
  /\ UNCHANGED <<sessions, transcriptCache, userLocks, mutex, cleanupInterval, now,
                 ops, nextQ, appended, issued, dirty, puts, url, fetched>>

\* ------------------------------------------- QAEngine.answerQuestion
NotCovered == "This topic is not covered in the video."

\* chunkTranscript run to its end
RECURSIVE chunksOf(_)
chunksOf(p) == IF p.pc = "done" THEN p.chunks ELSE chunksOf(chunkIteration(p))

\* answerQuestion without the test of relevantChunks.length
answerQuestionAlwaysAsks(cfg, question, text) ==
  LET chunks == chunksOf(chunkTranscriptStart(cfg, text))
      relevantChunks == findRelevantChunksIn(question, chunks)
  IN [fn |-> "answerQuestion", question |-> question, text |-> text,
      chunks |-> chunks, relevantChunks |-> relevantChunks,
      pc |-> "completion", provider |-> TRUE, ret |-> Void]

\* answerQuestion up to its await: it chunks the transcript and ranks the
\* chunks; with no relevant chunk it returns at once, else it builds the prompt
\* and calls the provider
answerQuestionIn(cfg, question, text) ==
  LET chunks == chunksOf(chunkTranscriptStart(cfg, text))
      relevantChunks == findRelevantChunksIn(question, chunks)
  IN IF Len(relevantChunks) = 0
       THEN [fn |-> "answerQuestion", question |-> question, text |-> text,
             chunks |-> chunks, relevantChunks |-> relevantChunks,
             pc |-> "done", provider |-> FALSE, ret |-> NotCovered]
       ELSE [fn |-> "answerQuestion", question |-> question, text |-> text,
             chunks |-> chunks, relevantChunks |-> relevantChunks,
             pc |-> "completion", provider |-> TRUE, ret |-> Void]

\* the transcript texts: nothing, a chunk text, or two chunk texts
TranscriptTexts ==
  {<<>>} \cup ChunkTexts \cup {a \o <<" ">> \o b : a, b \in ChunkTexts}

\* qaEngine.answerQuestion(question, transcript, history) is called
answerQuestion(question, text) ==
  /\ Loaded
  /\ pure' = answerQuestionIn(pure, question, text)
  /\ last' = NoEvent
  /\ UNCHANGED <<sessions, transcriptCache, userLocks, mutex, cleanupInterval, now,
                 ops, nextQ, appended, issued, dirty, puts, url, fetched>>

\* the completion request settles: with a content, which is returned, with an
\* empty content, for which the fixed sentence is returned, or with an error,
\* which is thrown on
openaiCompletion ==
  /\ pure.fn = "answerQuestion"
  /\ pure.pc = "completion"
  /\ \E content \in {"answer", "", "error"} :
       pure' = [pure EXCEPT !.pc = "done",
                            !.ret = IF content = "error" THEN Threw
                                    ELSE IF Truthy(content) THEN content
                                    ELSE NotCovered]
  /\ last' = NoEvent
  /\ UNCHANGED <<sessions, transcriptCache, userLocks, mutex, cleanupInterval, now,
                 ops, nextQ, appended, issued, dirty, puts, url, fetched>>

\* ------------------------------------- TranscriptFetcher.fetchTranscript
\* String.prototype.includes
includes(str, needle) ==
  \E k \in 0..(Len(str) - Len(needle)) : SubSeq(str, k + 1, k + Len(needle)) = needle

\* 'Transcript is disabled' and 'Video unavailable'
DisabledNeedle ==
  <<"T", "r", "a", "n", "s", "c", "r", "i", "p", "t", " ", "i", "s", " ",
    "d", "i", "s", "a", "b", "l", "e", "d">>
UnavailableNeedle ==
  <<"V", "i", "d", "e", "o", " ", "u", "n", "a", "v", "a", "i", "l", "a",
    "b", "l", "e">>

\* 'Transcript not available for this video.'
NoTranscriptMessage ==
  <<"T", "r", "a", "n", "s", "c", "r", "i", "p", "t", " ", "n", "o", "t",
    " ", "a", "v", "a", "i", "l", "a", "b", "l", "e", " ", "f", "o", "r",
    " ", "t", "h", "i", "s", " ", "v", "i", "d", "e", "o", ".">>

\* what an attempt of YoutubeTranscript.fetchTranscript ends with: segments,
\* no segment, or an error with one of the messages "Transcript is disabled
\* on this video", "Video unavailable", "Network error", "Too many requests"
Outcomes ==
  {[data |-> "segments", message |-> <<>>],
   [data |-> "empty", message |-> <<>>],
   [data |-> "error", message |->
      <<"T", "r", "a", "n", "s", "c", "r", "i", "p", "t", " ", "i", "s", " ",
        "d", "i", "s", "a", "b", "l", "e", "d", " ", "o", "n", " ", "t", "h",
        "i", "s", " ", "v", "i", "d", "e", "o">>],
   [data |-> "error", message |->
      <<"V", "i", "d", "e", "o", " ", "u", "n", "a", "v", "a", "i", "l", "a",
        "b", "l", "e">>],
   [data |-> "error", message |->
      <<"N", "e", "t", "w", "o", "r", "k", " ", "e", "r", "r", "o", "r">>],
   [data |-> "error", message |->
      <<"T", "o", "o", " ", "m", "a", "n", "y", " ", "r", "e", "q", "u", "e",
        "s", "t", "s">>]}

\* config.transcript.retryDelays, and retryDelays[attempt] || the last delay
retryDelays == <<1000, 2000, 4000>>
delayOf(attempt) ==
  IF attempt + 1 <= Len(retryDelays) THEN retryDelays[attempt + 1]
  ELSE retryDelays[Len(retryDelays)]

TranscriptFetchError(code) == [error |-> "TranscriptFetchError", code |-> code]

\* the statements after the loop: all retries failed
allRetriesFailed(p) == [p EXCEPT !.pc = "done", !.ret = TranscriptFetchError("FETCH_FAILED")]

\* the catch block sleeping after the last attempt too
catchErrorSleepingLast(p, message) ==
  IF includes(message, DisabledNeedle)
    THEN [p EXCEPT !.pc = "done", !.ret = TranscriptFetchError("TRANSCRIPT_DISABLED")]
  ELSE IF includes(message, UnavailableNeedle)
    THEN [p EXCEPT !.pc = "done", !.ret = TranscriptFetchError("VIDEO_UNAVAILABLE")]
  ELSE [p EXCEPT !.pc = "sleeping", !.sleeps = Append(@, delayOf(p.attempt))]

\* the catch block, entered with the error thrown in the try block
catchError(p, message) ==
  IF includes(message, DisabledNeedle)
    THEN [p EXCEPT !.pc = "done", !.ret = TranscriptFetchError("TRANSCRIPT_DISABLED")]
  ELSE IF includes(message, UnavailableNeedle)
    THEN [p EXCEPT !.pc = "done", !.ret = TranscriptFetchError("VIDEO_UNAVAILABLE")]
  ELSE IF p.attempt = maxRetries - 1
    THEN allRetriesFailed(p)
  ELSE [p EXCEPT !.pc = "sleeping", !.sleeps = Append(@, delayOf(p.attempt))]

\* the try block after the await: without segments it throws the NO_TRANSCRIPT
\* error, which its own catch block catches
tryAttempt(p, outcome) ==
  LET q == [p EXCEPT !.outcomes = Append(@, outcome)]
  IN IF outcome.data = "error" THEN catchError(q, outcome.message)
     ELSE IF outcome.data = "empty" THEN catchError(q, NoTranscriptMessage)
     ELSE [q EXCEPT !.pc = "done",
                    !.ret = [video_id |-> p.videoId, fetched_at |-> now]]

\* the test of the for loop
forTest(p) == IF p.attempt < maxRetries THEN [p EXCEPT !.pc = "attempt"] ELSE allRetriesFailed(p)

\* transcriptFetcher.fetchTranscript(videoId) is called
fetcherFetchTranscript(videoId) ==
  /\ Loaded
  /\ pure' = forTest([fn |-> "fetchTranscript", videoId |-> videoId, attempt |-> 0,
                      outcomes |-> <<>>, sleeps |-> <<>>, pc |-> "attempt",
                      ret |-> Void])
  /\ last' = NoEvent
  /\ UNCHANGED <<sessions, transcriptCache, userLocks, mutex, cleanupInterval, now,
                 ops, nextQ, appended, issued, dirty, puts, url, fetched>>

\* the awaited YoutubeTranscript.fetchTranscript call settles
youtubeTranscript ==
  /\ pure.fn = "fetchTranscript"
  /\ pure.pc = "attempt"
  /\ \E outcome \in Outcomes : pure' = tryAttempt(pure, outcome)
  /\ last' = NoEvent
  /\ UNCHANGED <<sessions, transcriptCache, userLocks, mutex, cleanupInterval, now,
                 ops, nextQ, appended, issued, dirty, puts, url, fetched>>

\* the awaited sleep ends: attempt++ and the test of the loop
sleep ==
  /\ pure.fn = "fetchTranscript"
  /\ pure.pc = "sleeping"
  /\ pure' = forTest([pure EXCEPT !.attempt = @ + 1])
  /\ last' = NoEvent
  /\ UNCHANGED <<sessions, transcriptCache, userLocks, mutex, cleanupInterval, now,
                 ops, nextQ, appended, issued, dirty, puts, url, fetched>>

\* ------------------------------------ urlParser and MessageRouter
\* the characters of a video id: [a-zA-Z0-9_-]
IsIdChar(c) == IsWordChar(c) \/ c = "-"

\* the four regular expressions of extractVideoId: the text before the video
\* id, and the characters that may follow it unless the url ends there
patterns ==
  << [prefix |-> <<"y", "o", "u", "t", "u", "b", "e", ".", "c", "o", "m", "/", "w",
                   "a", "t", "c", "h", "?", "v", "=">>,
      delimiters |-> {"&", " "}],
     [prefix |-> <<"y", "o", "u", "t", "u", ".", "b", "e", "/">>,
      delimiters |-> {"?", "&", " "}],
     [prefix |-> <<"y", "o", "u", "t", "u", "b", "e", ".", "c", "o", "m", "/", "e",
                   "m", "b", "e", "d", "/">>,
      delimiters |-> {"?", "&", " "}],
     [prefix |-> <<"y", "o", "u", "t", "u", "b", "e", ".", "c", "o", "m", "/", "v", "/">>,
      delimiters |-> {"?", "&", " "}] >>

\* the places of the url where the pattern matches
matchesOf(str, pattern) ==
  {k \in 1..Len(str) :
     LET s == k + Len(pattern.prefix)
         e == s + videoIdLength - 1
     IN /\ e <= Len(str)
        /\ SubSeq(str, k, s - 1) = pattern.prefix
        /\ \A i \in s..e : IsIdChar(str[i])
        /\ e = Len(str) \/ str[e + 1] \in pattern.delimiters}

\* url.match(pattern)[1]: the video id of the leftmost match
groupOf(str, pattern) ==
  LET k == CHOOSE m \in matchesOf(str, pattern) :
             \A n \in matchesOf(str, pattern) : m <= n
      s == k + Len(pattern.prefix)
  IN SubSeq(str, s, s + videoIdLength - 1)

RECURSIVE extractFrom(_, _)
extractFrom(str, n) ==
  IF n > Len(patterns) THEN Null
  ELSE IF matchesOf(str, patterns[n]) # {} THEN groupOf(str, patterns[n])
  ELSE extractFrom(str, n + 1)

extractVideoId(str) == IF str = <<>> THEN Null ELSE extractFrom(str, 1)

isYouTubeUrl(str) ==
  extractVideoId(str) # Null /\ Len(extractVideoId(str)) = videoIdLength

SessionStates == {"ACTIVE", "NO_SESSION", "EXPIRED"}

\* message.split(' ')[0]
firstToken(message) ==
  IF \E k \in 1..Len(message) : message[k] = " "
    THEN SubSeq(message, 1,
                (CHOOSE k \in 1..Len(message) :
                   message[k] = " " /\ \A j \in 1..(k - 1) : message[j] # " ") - 1)
    ELSE message

\* what routeMessage returns when the message is no command and no link
routeByState(message, sessionState) ==
  IF sessionState = "ACTIVE"
    THEN [type |-> "question", question |-> message]
  ELSE IF sessionState = "NO_SESSION"
    THEN [type |-> "usage_instructions", message |-> "usage instructions"]
  ELSE [type |-> "no_session_error", message |-> "session expired"]

routeMessageLinkFirst(message, sessionState) ==
  IF isYouTubeUrl(message) /\ extractVideoId(message) # <<>>
    THEN [type |-> "youtube_url", videoId |-> extractVideoId(message)]
  ELSE IF Len(message) > 0 /\ message[1] = "/"
    THEN [type |-> "command",
          command |-> toLowerCase(Tail(firstToken(message))),
          message |-> message]
  ELSE routeByState(message, sessionState)

routeMessageIn(message, sessionState) ==
  IF Len(message) > 0 /\ message[1] = "/"
    THEN [type |-> "command",
          command |-> toLowerCase(Tail(firstToken(message))),
          message |-> message]
  ELSE IF isYouTubeUrl(message) /\ extractVideoId(message) # <<>>
    THEN [type |-> "youtube_url", videoId |-> extractVideoId(message)]
  ELSE routeByState(message, sessionState)

\* the messages routed: one of "", "/", "/Help ", "see " in front of nothing,
\* a link of each form with the video id dQw4w9WgXcQ, a link whose id is a
\* character too long, or a question, followed by one of "", " now", "&t=1",
\* "?t=1"
MessageHeads ==
  {<<>>, <<"/">>, <<"/", "H", "e", "l", "p", " ">>, <<"s", "e", "e", " ">>}
MessageBodies ==
  {<<>>,
   <<"h", "t", "t", "p", "s", ":", "/", "/", "y", "o", "u", "t", "u", ".", "b",
     "e", "/", "d", "Q", "w", "4", "w", "9", "W", "g", "X", "c", "Q">>,
   <<"h", "t", "t", "p", "s", ":", "/", "/", "w", "w", "w", ".", "y", "o", "u",
     "t", "u", "b", "e", ".", "c", "o", "m", "/", "w", "a", "t", "c", "h", "?",
     "v", "=", "d", "Q", "w", "4", "w", "9", "W", "g", "X", "c", "Q">>,
   <<"y", "o", "u", "t", "u", "b", "e", ".", "c", "o", "m", "/", "e", "m", "b",
     "e", "d", "/", "d", "Q", "w", "4", "w", "9", "W", "g", "X", "c", "Q">>,
   <<"y", "o", "u", "t", "u", "b", "e", ".", "c", "o", "m", "/", "v", "/", "d",
     "Q", "w", "4", "w", "9", "W", "g", "X", "c", "Q">>,
   <<"h", "t", "t", "p", "s", ":", "/", "/", "y", "o", "u", "t", "u", ".", "b",
     "e", "/", "d", "Q", "w", "4", "w", "9", "W", "g", "X", "c", "Q", "x">>,
   <<"W", "h", "a", "t", " ", "i", "s", " ", "i", "t">>}
MessageTails ==
  {<<>>, <<" ", "n", "o", "w">>, <<"&", "t", "=", "1">>, <<"?", "t", "=", "1">>}
Messages ==
  {h \o b \o e : h \in MessageHeads, b \in MessageBodies, e \in MessageTails}

\* messageRouter.routeMessage(userId, message, sessionState) is called
routeMessage(message, sessionState) ==
  /\ Loaded
  /\ pure' = [fn |-> "routeMessage", pc |-> "done", message |-> message,
              sessionState |-> sessionState,
              ret |-> routeMessageIn(message, sessionState)]
  /\ last' = NoEvent
  /\ UNCHANGED <<sessions, transcriptCache, userLocks, mutex, cleanupInterval, now,
                 ops, nextQ, appended, issued, dirty, puts, url, fetched>>

\* ------------------------------ message handler and handleQuestion (index.ts)
\* the text of a message that is no command and no link
PlainText == <<"W", "h", "a", "t">>

\* the handler of a message of user u at position pc.  session is the value the
\* awaited getSession call resolved with; stale is a history field: the session
\* the first getSession call of the handler found was idle for more than 24 hours
Handling(u, pc) ==
  [pc |-> pc, videoId |-> "", transcript |-> NoTranscript, session |-> Null,
   stale |-> FALSE]

\* session ? Date.now() - session.last_accessed.getTime() > 24 h : false
isExpired(session, time) ==
  session # Null /\ (time - session.last_accessed) * ClockStepHours > 24

\* MessageRouter.getSessionState
getSessionState(hasSession, expired) ==
  IF ~hasSession THEN "NO_SESSION"
  ELSE IF expired THEN "EXPIRED"
  ELSE "ACTIVE"

\* a handler is between two promise jobs: a call it awaits is in flight or has
\* just resolved
ContinuationPending ==
  \E u \in Users : url[u].pc \in {"m_getting", "q_getting", "updating", "getting",
                                  "creating"}

\* bot.on('message') for a plain text of user u: contextManager.getSession
onMessage(u) ==
  /\ url[u].pc = "idle"
  /\ \E i \in Slots : getSession(i, u)
  /\ url' = [url EXCEPT ![u] = Handling(u, "m_getting")]
  /\ last' = NoEvent
  /\ UNCHANGED <<puts, fetched, pure>>

\* getSession has returned: the handler computes isExpired and the session
\* state, routes the text, and either enters handleQuestion, which calls
\* getSession again, or sends the message of the route
routeText(u) ==
  LET state == getSessionState(url[u].session # Null, isExpired(url[u].session, now))
      route == routeMessageIn(PlainText, state)
  IN /\ url[u].pc = "m_getting"
     /\ ~Awaited(u, "get")
     /\ IF route.type = "question"
          THEN /\ \E i \in Slots : getSession(i, u)
               /\ url' = [url EXCEPT ![u].pc = "q_getting", ![u].session = Null]
               /\ last' = NoEvent
          ELSE /\ url' = [url EXCEPT ![u] = HandlerIdle]
               /\ last' = Sent(u, route.message)
               /\ UNCHANGED <<sessions, transcriptCache, userLocks, mutex,
                              cleanupInterval, now, ops, nextQ, appended, issued,
                              dirty>>
     /\ UNCHANGED <<puts, fetched, pure>>

\* handleQuestion after getSession: without a session it sends the error; else
\* it sends the typing indicator and calls qaEngine.answerQuestion with the
\* transcript and the history of the session object it holds
questionSession(u) ==
  /\ url[u].pc = "q_getting"
  /\ ~Awaited(u, "get")
  /\ IF url[u].session = Null
       THEN /\ url' = [url EXCEPT ![u] = HandlerIdle]
            /\ last' = Sent(u, "No active session")
       ELSE /\ url' = [url EXCEPT ![u].pc = "answering",
                                  ![u].videoId = url[u].session.video_id,
                                  ![u].transcript = url[u].session.transcript]
            /\ last' = NoEvent
  /\ UNCHANGED <<sessions, transcriptCache, userLocks, mutex, cleanupInterval, now,
                 ops, nextQ, appended, issued, dirty, puts, fetched, pure>>

\* answerQuestion (and the translation) has settled: with an answer, which is
\* written as the video it was drawn from, the handler calls
\* contextManager.updateHistory; with an error it sends the error message
questionAnswered(u) ==
  /\ url[u].pc = "answering"
  /\ \E ok \in BOOLEAN :
       IF ok
         THEN /\ \E i \in Slots : updateHistory(i, u, url[u].videoId)
              /\ url' = [url EXCEPT ![u].pc = "updating"]
              /\ last' = NoEvent
         ELSE /\ url' = [url EXCEPT ![u] = HandlerIdle]
              /\ last' = Sent(u, "error")
              /\ UNCHANGED <<sessions, transcriptCache, userLocks, mutex,
                             cleanupInterval, now, ops, nextQ, appended, issued,
                             dirty>>
  /\ UNCHANGED <<puts, fetched, pure>>

\* updateHistory has returned: the handler sends the answer
questionSend(u) ==
  /\ url[u].pc = "updating"
  /\ ~Awaited(u, "update")
  /\ url' = [url EXCEPT ![u] = HandlerIdle]
  /\ last' = Sent(u, "answer")
  /\ UNCHANGED <<sessions, transcriptCache, userLocks, mutex, cleanupInterval, now,
                 ops, nextQ, appended, issued, dirty, puts, fetched, pure>>

\* -------------------------------------------------------- specifications
TranscriptOf(v) == [video_id |-> v, fetched_at |-> 0]

\* createSession arguments whose transcript is the one of the video key, as the
\* URL handler passes them (index.ts), and one whose transcript names another
\* video, as the unit tests pass them
MatchingArgs == {<<v, TranscriptOf(v)>> : v \in Videos}
MixedArgs == MatchingArgs \cup {<<"v2", TranscriptOf("v1")>>}

\* the calls the environment makes: any user of US, any <<video, transcript>> of
\* ARGS, at most maxQ questions
Calls(US, ARGS, maxQ) ==
  /\ \/ \E i \in Slots, u \in US, a \in ARGS : createSession(i, u, a[1], a[2])
     \/ \E i \in Slots, u \in US : getSession(i, u)
     \/ \E i \in Slots, u \in US : nextQ < maxQ /\ updateHistory(i, u, "a")
     \/ \E i \in Slots, u \in US : clearSession(i, u)
  /\ last' = NoEvent
  /\ UNCHANGED <<puts, url, fetched, pure>>

\* the promise jobs of the calls in flight
Jobs ==
  /\ \/ \E i \in Slots : createSessionBody(i)
     \/ \E i \in Slots : getSessionBody(i)
     \/ \E i \in Slots : updateHistoryBody(i)
     \/ \E i \in Slots : clearSessionBody(i)
     \/ \E i \in Slots : Release(i)
  /\ last' = NoEvent
  /\ UNCHANGED <<puts, url, fetched, pure>>

\* the promise jobs, with the keys put into the cache recorded
CacheJobs ==
  /\ \/ \E i \in Slots : /\ createSessionBody(i)
                          /\ puts' = Append(puts, ops[i].videoId)
     \/ /\ \/ \E i \in Slots : getSessionBody(i)
           \/ \E i \in Slots : updateHistoryBody(i)
           \/ \E i \in Slots : clearSessionBody(i)
           \/ \E i \in Slots : Release(i)
        /\ UNCHANGED puts
  /\ last' = NoEvent
  /\ UNCHANGED <<url, fetched, pure>>

\* Two users on one video, with the clock and the cleanup task
Next ==
  \/ Calls(Users, {<<"v1", TranscriptOf("v1")>>}, MaxAppends)
  \/ Jobs
  \/ cleanupExpiredSessions
  \/ now < MaxTime /\ Tick

Spec == Init /\ [][Next]_vars

\* Two users on two videos, the clock standing still
NextVideos ==
  \/ Calls(Users, MixedArgs, MaxAppends)
  \/ Jobs

SpecVideos == Init /\ [][NextVideos]_vars

\* One user on two videos with a long conversation, the clock standing still
NextHistory ==
  \/ Calls({"u1"}, MixedArgs, MaxHistoryAppends)
  \/ Jobs

SpecHistory == Init /\ [][NextHistory]_vars

\* createSession calls that have not run their callback yet
PendingCreates ==
  Cardinality({i \in Slots : ops[i].kind = "create" /\ ops[i].pc \in {"waiting", "acquired"}})

\* Three video keys over a cache of maxVideos entries
CacheVideos == {"v1", "v2", "v3"}
CacheArgs == {<<v, TranscriptOf(v)>> : v \in CacheVideos}

\* One user on three videos with cache lookups, the clock standing still
NextCache ==
  \/ /\ Len(puts) + PendingCreates < MaxPuts
     /\ Calls({"u1"}, CacheArgs, MaxAppends)
  \/ CacheJobs
  \/ \E v \in CacheVideos : getCachedTranscript(v)

SpecCache == Init /\ [][NextCache]_vars

\* a transcript fetched some days ago and reused: the next day it has the age
\* of the cache ttl, the day after it is older
AgedTranscriptOf(v) == [video_id |-> v, fetched_at |-> 1 - ttlDays]
TtlArgs == {<<"v1", AgedTranscriptOf("v1")>>, <<"v2", TranscriptOf("v2")>>}

\* One user on an aged and a fresh transcript, with cache lookups and the clock
NextTtl ==
  \/ Calls({"u1"}, TtlArgs, MaxAppends)
  \/ Jobs
  \/ \E v \in Videos : getCachedTranscript(v)
  \/ now < MaxTime /\ Tick

SpecTtl == Init /\ [][NextTtl]_vars

\* One user in a conversation about an aged transcript while another user
\* opens another video, with cache lookups and the clock
NextEvict ==
  \/ Calls({"u1"}, {<<"v1", AgedTranscriptOf("v1")>>}, MaxAppends)
  \/ /\ \E i \in Slots : createSession(i, "u2", "v2", TranscriptOf("v2"))
     /\ last' = NoEvent
     /\ UNCHANGED <<puts, url, fetched, pure>>
  \/ Jobs
  \/ getCachedTranscript("v1")
  \/ now < MaxTime /\ Tick

SpecEvict == Init /\ [][NextEvict]_vars

\* One user, with the clock, the cleanup task and its shutdown.  The promise
\* jobs of a call run to their end, the clock advances, and the event loop
\* reaches its timer phase with no promise job pending again and again, where
\* it runs the cleanup callback as long as the timer is armed.
NextCleanup ==
  \/ Calls({"u1"}, {<<"v1", TranscriptOf("v1")>>}, MaxAppends)
  \/ Jobs
  \/ cleanupExpiredSessions
  \/ stopCleanupTask
  \/ now < MaxTime /\ Tick

SpecCleanup ==
  /\ Init
  /\ [][NextCleanup]_vars
  /\ WF_vars(Jobs)
  /\ WF_vars(now < MaxTime /\ Tick)
  /\ SF_vars(cleanupExpiredSessions)
  /\ []<>MicrotasksDrained

\* the promise jobs of the call in slot i
Job(i) ==
  /\ \/ createSessionBody(i)
     \/ getSessionBody(i)
     \/ updateHistoryBody(i)
     \/ clearSessionBody(i)
     \/ Release(i)
  /\ last' = NoEvent
  /\ UNCHANGED <<puts, url, fetched, pure>>

\* One user, with the clock, the cleanup task and its shutdown.  The promise-job
\* queue is first in, first out: the pending job of every call is run.
SpecFair ==
  /\ Init
  /\ [][NextCleanup]_vars
  /\ \A i \in Slots : WF_vars(Job(i))

\* the promise jobs of the calls the URL handler makes
UrlJobs ==
  /\ \/ \E i \in Slots : createSessionBody(i)
     \/ \E i \in Slots : getSessionBody(i)
     \/ \E i \in Slots : Release(i)
  /\ last' = NoEvent
  /\ UNCHANGED <<puts, url, fetched, pure>>

\* Two users sending links of two videos, the clock standing still
NextUrl ==
  \/ \E u \in Users, v \in Videos : UrlsHandled < MaxUrls /\ handleYouTubeUrl(u, v)
  \/ \E u \in Users : fetchTranscript(u)
  \/ \E u \in Users : handlerGetSession(u)
  \/ \E u \in Users : handlerCreateSession(u)
  \/ \E u \in Users : handlerSummary(u)
  \/ UrlJobs

SpecUrl == Init /\ [][NextUrl]_vars

\* the promise jobs of the calls in flight; the value a getSession call of the
\* message handler or of handleQuestion resolves with is kept for its caller
MessageJobs ==
  /\ \/ \E i \in Slots :
          /\ getSessionBody(i)
          /\ url' = [url EXCEPT ![ops[i].user] =
                       IF @.pc \in {"m_getting", "q_getting"}
                         THEN [@ EXCEPT
                                 !.session = getSessionResult(sessions, ops[i].user, now),
                                 !.stale = IF url[ops[i].user].pc = "m_getting"
                                             THEN /\ sessions[ops[i].user] # NoSession
                                                  /\ Expired(sessions[ops[i].user])
                                             ELSE @]
                         ELSE @]
     \/ /\ \/ \E i \in Slots : createSessionBody(i)
           \/ \E i \in Slots : updateHistoryBody(i)
           \/ \E i \in Slots : clearSessionBody(i)
           \/ \E i \in Slots : Release(i)
        /\ UNCHANGED url
  /\ last' = NoEvent
  /\ UNCHANGED <<puts, fetched, pure>>

\* the calls the handlers of other messages of the user make meanwhile: a
\* link that was fetched (createSession) and /clear (clearSession)
OtherMessages(US) ==
  /\ \/ \E i \in Slots, u \in US, v \in Videos : createSession(i, u, v, TranscriptOf(v))
     \/ \E i \in Slots, u \in US : clearSession(i, u)
  /\ last' = NoEvent
  /\ UNCHANGED <<puts, url, fetched, pure>>

\* One user sending plain texts and links of two videos, with /clear, the clock
\* standing still
NextMessage ==
  \/ nextQ < MaxAppends /\ onMessage("u1")
  \/ routeText("u1")
  \/ questionSession("u1")
  \/ questionAnswered("u1")
  \/ questionSend("u1")
  \/ \E v \in Videos : UrlsHandled < MaxAppends /\ handleYouTubeUrl("u1", v)
  \/ fetchTranscript("u1")
  \/ handlerGetSession("u1")
  \/ handlerCreateSession("u1")
  \/ handlerSummary("u1")
  \/ OtherMessages({"u1"})
  \/ MessageJobs

SpecMessage == Init /\ [][NextMessage]_vars

\* One user sending plain texts, links of two videos and /clear, with the clock
\* and the cleanup task.  Time passes and the timer task starts only between
\* the runs of promise jobs.
NextExpiry ==
  \/ nextQ < MaxAppends /\ onMessage("u1")
  \/ routeText("u1")
  \/ questionSession("u1")
  \/ questionAnswered("u1")
  \/ questionSend("u1")
  \/ OtherMessages({"u1"})
  \/ MessageJobs
  \/ ~ContinuationPending /\ cleanupExpiredSessions
  \/ now < MaxTime /\ ~ContinuationPending /\ MicrotasksDrained /\ Tick

SpecExpiry == Init /\ [][NextExpiry]_vars

\* the state after construction with the configuration cfg loaded
InitConfig(CFG) ==
  /\ sessions = [u \in Users |-> NoSession]
  /\ transcriptCache = <<>>
  /\ userLocks = [u \in Users |-> NoLock]
  /\ mutex = [l \in LockIds |-> NewMutex]
  /\ cleanupInterval = TRUE
  /\ now = 0
  /\ ops = [i \in Slots |-> Idle]
  /\ nextQ = 0
  /\ appended = [u \in Users |-> <<>>]
  /\ issued = [u \in Users |-> <<>>]
  /\ dirty = [u \in Users |-> FALSE]
  /\ last = NoEvent
  /\ puts = <<>>
  /\ url = [u \in Users |-> HandlerIdle]
  /\ fetched = <<>>
  /\ \E cfg \in CFG :
       pure = [fn |-> "config", pc |-> "done", chunkSize |-> cfg.chunkSize,
               chunkOverlap |-> cfg.chunkOverlap]

\* config.qa as it is shipped, scaled down from 500 and 50
ShippedConfig == [chunkSize |-> MaxWindow, chunkOverlap |-> 1]

\* chunkTranscript on every text, under every setting whose overlap is smaller
\* than the chunk size; the loop is synchronous code, so it keeps running
NextChunk ==
  \/ \E text \in Texts : chunkTranscript(text)
  \/ chunkTranscriptLoop

SpecChunk ==
  /\ InitConfig(ValidConfigs)
  /\ [][NextChunk]_vars
  /\ WF_vars(chunkTranscriptLoop)

\* chunkTranscript on every text, under every setting
SpecChunkAny == InitConfig(AllConfigs) /\ [][NextChunk]_vars

\* TranscriptFetcher.chunkTranscript on every text and every chunk size
NextSegment ==
  \E text \in Texts, chunkSize \in 1..MaxSegment : fetcherChunkTranscript(text, chunkSize)

SpecSegment == InitConfig({ShippedConfig}) /\ [][NextSegment]_vars

\* findRelevantChunks on the questions and the chunk lists
NextRank ==
  \E question \in Questions, chunks \in ChunkLists : findRelevantChunks(question, chunks)

SpecRank == InitConfig({ShippedConfig}) /\ [][NextRank]_vars

\* routeMessage on the messages in every session state
NextRoute ==
  \E message \in Messages, sessionState \in SessionStates :
    routeMessage(message, sessionState)

SpecRoute == InitConfig({ShippedConfig}) /\ [][NextRoute]_vars

\* answerQuestion on the questions and the transcript texts
NextAnswer ==
  \/ \E question \in Questions, text \in TranscriptTexts : answerQuestion(question, text)
  \/ openaiCompletion

SpecAnswer == InitConfig({ShippedConfig}) /\ [][NextAnswer]_vars

\* fetchTranscript on two video ids; the request and the sleep settle
NextFetch ==
  \/ \E videoId \in Videos : fetcherFetchTranscript(videoId)
  \/ youtubeTranscript
  \/ sleep

SpecFetch ==
  /\ InitConfig({ShippedConfig})
  /\ [][NextFetch]_vars
  /\ WF_vars(youtubeTranscript)
  /\ WF_vars(sleep)

\* ------------------------------------------------------------ properties
\* the step runs the callback of the call in slot i, a call of `kind` for user u
BodyStep(i, kind, u) ==
  /\ ops[i].kind = kind
  /\ ops[i].user = u
  /\ ops[i].pc = "acquired"
  /\ ops'[i].pc = "ran"

\* the user whose call in slot i the step starts, runs or ends
CallerOf(i) == IF ops[i].pc = "idle" THEN ops'[i].user ELSE ops[i].user

\* C1: a session has the video_id and transcript of the last createSession call
\* of its user and an empty history right after each createSession; the session
\* map holds at most one session per user, the one filed under the user's key.
C1_Step ==
  \A u \in Users :
    /\ \A i \in Slots :
         BodyStep(i, "create", u) =>
           /\ sessions'[u] # NoSession
           /\ sessions'[u].video_id = ops[i].videoId
           /\ sessions'[u].transcript = ops[i].transcript
           /\ sessions'[u].history = <<>>
           /\ ops'[i].ret = sessions'[u]
    /\ \A i \in Slots :
         BodyStep(i, "get", u) /\ sessions[u] # NoSession =>
           /\ ops'[i].ret.video_id = sessions[u].video_id
           /\ ops'[i].ret.transcript = sessions[u].transcript
    /\ (sessions'[u] # NoSession /\ ~\E i \in Slots : BodyStep(i, "create", u)) =>
           /\ sessions[u] # NoSession
           /\ sessions'[u].video_id = sessions[u].video_id
           /\ sessions'[u].transcript = sessions[u].transcript

C1_LastCreateWins ==
  /\ [](\A u \in Users : sessions[u] # NoSession => sessions[u].user_id = u)
  /\ [][C1_Step]_vars

\* a createSession has just replaced a session of another video that had a
\* history, while the other user has a session of their own
C1_Witness ==
  \E i \in Slots, u \in Users :
    /\ ops[i].kind = "create" /\ ops[i].user = u /\ ops[i].pc = "ran"
    /\ ops[i].pre # NoSession
    /\ ops[i].pre.history # <<>>
    /\ ops[i].pre.video_id # sessions[u].video_id
    /\ sessions[u].history = <<>>
    /\ \E w \in Users \ {u} : sessions[w] # NoSession

\* C2: a step of an operation of user u1 leaves the session of every other user
\* as it is (its fields and whether it exists).
C2_Step ==
  \A i \in Slots :
    ops'[i] # ops[i] =>
      \A u2 \in Users \ {CallerOf(i)} : sessions'[u2] = sessions[u2]

C2_SessionIndependence == [][C2_Step]_vars

\* updateHistory of one user has just appended a pair while the other user has a
\* session, whose history is as it was
C2_Witness ==
  \E i \in Slots :
    /\ ops[i].kind = "update" /\ ops[i].pc = "ran"
    /\ sessions[ops[i].user] # NoSession
    /\ sessions[ops[i].user].history # <<>>
    /\ \E u2 \in Users \ {ops[i].user} :
         sessions[u2] # NoSession /\ sessions[u2].history = <<>>

\* C3: the history of a session is never longer than maxHistoryPairs and holds
\* the last min(n, maxHistoryPairs) of the n pairs appended to the session, in
\* the order in which they were appended.
C3_HistoryWindow ==
  \A u \in Users :
    sessions[u] # NoSession =>
      LET h == sessions[u].history
          n == Len(appended[u])
      IN /\ Len(h) <= maxHistoryPairs
         /\ Len(h) = Min(n, maxHistoryPairs)
         /\ \A k \in 1..Len(h) : h[k] = appended[u][n - Len(h) + k]

\* more than maxHistoryPairs pairs were appended to one session
C3_Witness ==
  \E u \in Users :
    /\ sessions[u] # NoSession
    /\ Len(appended[u]) > maxHistoryPairs
    /\ Len(sessions[u].history) = maxHistoryPairs

\* C4: at most one call per user holds that user's mutex.
C4_MutualExclusion ==
  \A i, j \in Slots :
    (i # j /\ InCriticalSection(i) /\ InCriticalSection(j)) =>
      ops[i].user # ops[j].user

\* a call waits in the queue of the mutex another call of the same user holds
C4_Witness ==
  \E i, j \in Slots :
    /\ ops[i].user = ops[j].user
    /\ InCriticalSection(i)
    /\ ops[j].pc = "waiting"
    /\ ops[j].lock = ops[i].lock

\* C5: when the updateHistory calls made for a user's session have all run, and
\* the session existed from the first of them on, the history holds the last
\* min(n, maxHistoryPairs) pairs of some serial order of the n calls: that many
\* pairs, each of one of the calls, none twice.
C5_NoLostAppend ==
  \A u \in Users :
    (sessions[u] # NoSession /\ ~dirty[u] /\ ~PendingUpdate(u)) =>
      LET h == sessions[u].history
      IN /\ Len(h) = Min(Len(issued[u]), maxHistoryPairs)
         /\ \A k \in 1..Len(h) : h[k].question \in Range(issued[u])
         /\ \A j, k \in 1..Len(h) : j # k => h[j].question # h[k].question

\* an updateHistory call that had to wait for another updateHistory call of the
\* same user has run, and both pairs are in the history
C5_Witness ==
  \E i \in Slots :
    LET u == ops[i].user
    IN /\ ops[i].kind = "update" /\ ops[i].pc = "ran" /\ ops[i].behind = "update"
       /\ sessions[u] # NoSession /\ ~dirty[u] /\ ~PendingUpdate(u)
       /\ Len(sessions[u].history) >= 2
       /\ Len(issued[u]) > maxHistoryPairs

\* C6: a user without a session gets one only by a createSession callback; no
\* getSession or updateHistory brings a cleared or evicted session back.
C6_Step ==
  \A u \in Users :
    (sessions[u] = NoSession /\ sessions'[u] # NoSession) =>
      \E i \in Slots : BodyStep(i, "create", u)

C6_NoResurrection == [][C6_Step]_vars

\* an updateHistory call that waited behind a clearSession of the same user has
\* run and the user still has no session
C6_Witness ==
  \E i \in Slots :
    /\ ops[i].kind = "update" /\ ops[i].pc = "ran" /\ ops[i].behind = "clear"
    /\ sessions[ops[i].user] = NoSession
    /\ transcriptCache # <<>>

\* C7: a call waits only for a call of its own user: whenever a call is queued,
\* the mutex it waits on is held by a call of the same user.
C7_NoCrossUserBlocking ==
  \A i \in Slots :
    ops[i].pc = "waiting" =>
      \E j \in Slots : /\ InCriticalSection(j)
                       /\ ops[j].lock = ops[i].lock
                       /\ ops[j].user = ops[i].user

\* calls of two users hold their mutexes at the same time
C7_Witness ==
  \E i, j \in Slots :
    /\ InCriticalSection(i) /\ InCriticalSection(j)
    /\ ops[i].user # ops[j].user

\* C8: getSession returns the user's session with last_accessed set to the
\* current time and stores that time in the session; without a session it
\* returns null and changes no session.
C8_Step ==
  \A i \in Slots, u \in Users :
    BodyStep(i, "get", u) =>
      IF sessions[u] = NoSession
        THEN /\ ops'[i].ret = Null
             /\ sessions' = sessions
        ELSE /\ ops'[i].ret = sessions'[u]
             /\ sessions'[u] = [sessions[u] EXCEPT !.last_accessed = now]
             /\ \A w \in Users \ {u} : sessions'[w] = sessions[w]

C8_GetSession == [][C8_Step]_vars

\* one getSession has returned a session it touched at a later time than the
\* last access, another has returned null
C8_Witness ==
  \E i, j \in Slots :
    /\ ops[i].kind = "get" /\ ops[i].pc = "ran"
    /\ ops[i].ret # Null
    /\ ops[i].pre.last_accessed < ops[i].ret.last_accessed
    /\ ops[j].kind = "get" /\ ops[j].pc = "ran"
    /\ ops[j].ret = Null
    /\ sessions[ops[j].user] = NoSession

\* C9: last_accessed of a session never decreases, and the callbacks of
\* createSession, getSession and updateHistory set it to the current time.
C9_Step ==
  \A u \in Users :
    /\ (sessions[u] # NoSession /\ sessions'[u] # NoSession) =>
         sessions'[u].last_accessed >= sessions[u].last_accessed
    /\ \A i \in Slots, kind \in {"create", "get", "update"} :
         (BodyStep(i, kind, u) /\ sessions'[u] # NoSession) =>
           sessions'[u].last_accessed = now

C9_LastAccessedMonotonic == [][C9_Step]_vars

\* a session last accessed at a later time than the time its transcript was
\* fetched at and the session was created at
C9_Witness ==
  \E i \in Slots :
    /\ ops[i].kind \in {"get", "update"} /\ ops[i].pc = "ran"
    /\ sessions[ops[i].user] # NoSession
    /\ sessions[ops[i].user].last_accessed = now
    /\ now > 0

\* C10: updateHistory for a user without a session returns normally, creates no
\* session and leaves the session map, the lock table and the cache as they are.
C10_Step ==
  \A i \in Slots, u \in Users :
    (BodyStep(i, "update", u) /\ sessions[u] = NoSession) =>
      /\ ops'[i].ret = Void
      /\ sessions' = sessions
      /\ transcriptCache' = transcriptCache
      /\ userLocks' = userLocks

C10_UpdateWithoutSession == [][C10_Step]_vars

\* updateHistory has run for a user without a session while the other user has
\* a session and the cache holds a transcript
C10_Witness ==
  \E i \in Slots :
    /\ ops[i].kind = "update" /\ ops[i].pc = "ran"
    /\ ops[i].ret = Void
    /\ sessions[ops[i].user] = NoSession
    /\ \E w \in Users \ {ops[i].user} : sessions[w] # NoSession
    /\ transcriptCache # <<>>

\* C11: clearSession removes the user's session and nothing else, and does not
\* throw; a getSession that follows it returns null; clearing again, with no
\* session there, changes neither the sessions, the cache nor the lock table.
C11_Step ==
  \A i \in Slots, u \in Users :
    /\ BodyStep(i, "clear", u) =>
         /\ sessions'[u] = NoSession
         /\ \A w \in Users \ {u} : sessions'[w] = sessions[w]
         /\ transcriptCache' = transcriptCache
         /\ userLocks' = userLocks
         /\ ops'[i].ret = Void
         /\ sessions[u] = NoSession => sessions' = sessions
    /\ (ops[i].pc = "idle" /\ ops'[i].kind = "clear" /\ ops'[i].user = u
          /\ userLocks[u] # NoLock) =>
         /\ userLocks' = userLocks
         /\ sessions' = sessions
         /\ transcriptCache' = transcriptCache

C11_ClearSession ==
  /\ [](\A i \in Slots :
          ops[i].behind = "clear" =>
            /\ ops[i].pc = "acquired" => sessions[ops[i].user] = NoSession
            /\ (ops[i].kind = "get" /\ ops[i].pc = "ran") => ops[i].ret = Null
            /\ (ops[i].kind = "clear" /\ ops[i].pc = "ran") => ops[i].pre = NoSession)
  /\ [][C11_Step]_vars

\* a clearSession has removed a session that had a history, and a second
\* clearSession of the same user waits behind it
C11_Witness ==
  \E i, j \in Slots :
    /\ ops[i].kind = "clear" /\ ops[i].pc = "ran"
    /\ ops[i].pre # NoSession
    /\ ops[i].pre.history # <<>>
    /\ sessions[ops[i].user] = NoSession
    /\ ops[j].kind = "clear" /\ ops[j].user = ops[i].user
    /\ ops[j].pc = "waiting" /\ ops[j].behind = "clear"

\* C12: a sweep removes the sessions last accessed more than ttlHours ago, and
\* the lock entries of their users, and leaves every other session and lock
\* entry, and the cache, as they are.
C12_Step ==
  last'.op = "sweep" =>
    /\ \A u \in Users :
         IF /\ sessions[u] # NoSession
            /\ (now - sessions[u].last_accessed) * ClockStepHours > ttlHours
           THEN sessions'[u] = NoSession /\ userLocks'[u] = NoLock
           ELSE sessions'[u] = sessions[u] /\ userLocks'[u] = userLocks[u]
    /\ transcriptCache' = transcriptCache

C12_Sweep == [][C12_Step]_vars

\* a sweep has removed the session of one user and kept the session of the
\* other, which was last accessed exactly ttlHours ago
C12_Witness ==
  /\ last.op = "sweep"
  /\ \E u \in last.ret : sessions[u] = NoSession /\ userLocks[u] = NoLock
  /\ \E w \in Users \ last.ret :
       /\ sessions[w] # NoSession
       /\ userLocks[w] # NoLock
       /\ (now - sessions[w].last_accessed) * ClockStepHours = ttlHours

\* C13: while the cleanup task runs, a session that is not accessed any more
\* is eventually removed: a session last accessed at time a (early enough for
\* the bounded clock to pass a + ttl) is later gone, or accessed at a later
\* time, or the cleanup task is stopped.
C13_IdleRemoved ==
  \A u \in Users, a \in 0..(MaxTime - 2) :
    (sessions[u] # NoSession /\ sessions[u].last_accessed = a /\ cleanupInterval)
      ~> \/ sessions[u] = NoSession
         \/ sessions[u].last_accessed > a
         \/ ~cleanupInterval

\* a sweep has removed a session while the cleanup task was running
C13_Witness ==
  /\ last.op = "sweep"
  /\ cleanupInterval
  /\ \E u \in last.ret : sessions[u] = NoSession
  /\ now = MaxTime

\* C14: once stopCleanupTask has been called no sweep starts any more; the
\* call does not throw, leaves the timer stopped when it was stopped before,
\* and leaves sessions, locks, cache and the calls in flight as they are.
C14_Step ==
  last'.op = "stop" =>
    /\ last'.ret = Void
    /\ ~cleanupInterval'
    /\ UNCHANGED <<sessions, transcriptCache, userLocks, mutex, ops>>

C14_StopCleanupTask ==
  /\ [](last.op = "stop" => [](last.op # "sweep"))
  /\ [][C14_Step]_vars

\* stopCleanupTask has just been called with an expired session in the map and
\* no call in flight: a sweep would have removed the session
C14_Witness ==
  /\ last.op = "stop"
  /\ MicrotasksDrained
  /\ \E u \in Users : sessions[u] # NoSession /\ Expired(sessions[u])

\* C15: the cache never holds more than maxVideos transcripts.
C15_CacheBounded == Len(transcriptCache) <= maxVideos

\* the cache is full after more than maxVideos distinct keys were put, one of
\* them twice, and a lookup has just hit
C15_Witness ==
  /\ Len(transcriptCache) = maxVideos
  /\ Cardinality(Range(puts)) > maxVideos
  /\ Len(puts) > Cardinality(Range(puts))
  /\ last.op = "getCached"
  /\ last.ret # Null

C17_Step ==
  \A i \in Slots, u \in Users :
    BodyStep(i, "create", u) =>
      LET c == transcriptCache
          entry == [key |-> ops[i].videoId, value |-> ops[i].transcript]
      IN IF entry.key \in CacheKeys(c)
           THEN /\ CacheKeys(transcriptCache') = CacheKeys(c)
                /\ Len(transcriptCache') = Len(c)
                /\ MapGet(transcriptCache', entry.key) = entry.value
           ELSE IF Len(c) >= maxVideos
             THEN transcriptCache' = Append(Tail(c), entry)
             ELSE transcriptCache' = Append(c, entry)

C17_EvictOnlyForNewKey == [][C17_Step]_vars

\* C18: getCachedTranscript returns null for a key that is not cached and
\* changes nothing; for an entry older than ttlDays it returns null and removes
\* that entry and no other; for an entry within ttlDays it returns the stored
\* transcript and leaves the cache as it is.
C18_Step ==
  last'.op = "getCached" =>
    LET c == transcriptCache
        key == last'.key
        stored == {k \in 1..Len(c) : c[k].key = key}
    IN /\ sessions' = sessions
       /\ IF stored = {}
            THEN last'.ret = Null /\ transcriptCache' = c
            ELSE LET t == c[CHOOSE k \in stored : TRUE].value
                 IN IF (now - t.fetched_at) * ClockStepHours > ttlDays * 24
                      THEN /\ last'.ret = Null
                           /\ Len(transcriptCache') = Len(c) - 1
                           /\ key \notin CacheKeys(transcriptCache')
                           /\ \A k \in 1..Len(c) :
                                c[k].key # key =>
                                  \E j \in 1..Len(transcriptCache') :
                                    transcriptCache'[j] = c[k]
                      ELSE last'.ret = t /\ transcriptCache' = c

C18_GetCachedTranscript == [][C18_Step]_vars

\* a lookup has just removed an expired transcript and left the other entry of
\* the cache in place
C18_Witness ==
  /\ last.op = "getCached"
  /\ last.log = "Cached transcript expired"
  /\ last.ret = Null
  /\ last.key \notin CacheKeys(transcriptCache)
  /\ transcriptCache # <<>>

\* C19: createSession files its transcript in the cache under the key it was
\* called with, so that a lookup of that key right afterwards returns the
\* transcript (if it is not older than ttlDays); the cache never holds two
\* entries for one key, however many users create sessions on it.
C19_Step ==
  \A i \in Slots, u \in Users :
    BodyStep(i, "create", u) =>
      LET key == ops[i].videoId
          d == ops[i].transcript
      IN /\ \E k \in 1..Len(transcriptCache') :
              transcriptCache'[k] = [key |-> key, value |-> d]
         /\ (now - d.fetched_at) * ClockStepHours <= ttlDays * 24 =>
              getCachedTranscriptResult(transcriptCache', key, now) = d

C19_CachedUnderKey ==
  /\ [](\A j, k \in 1..Len(transcriptCache) :
          transcriptCache[j].key = transcriptCache[k].key => j = k)
  /\ [][C19_Step]_vars

\* both users have a session on one key whose transcript names another video,
\* the second createSession has just run, and the cache holds the key with
\* that transcript
C19_Witness ==
  \E i \in Slots, u \in Users, w \in Users :
    /\ u # w
    /\ ops[i].kind = "create" /\ ops[i].user = u /\ ops[i].pc = "ran"
    /\ sessions[u] # NoSession /\ sessions[w] # NoSession
    /\ sessions[u].video_id = sessions[w].video_id
    /\ sessions[u].transcript.video_id # sessions[u].video_id
    /\ MapGet(transcriptCache, sessions[u].video_id) = sessions[u].transcript

\* C20: a transcript leaving the cache, evicted by a put or purged by a
\* lookup, leaves every session as it is (but the session the evicting
\* createSession replaces), and getSession still returns a session whose
\* transcript is not cached any more, with its transcript, video_id and history.
C20_Step ==
  /\ CacheKeys(transcriptCache) \ CacheKeys(transcriptCache') # {} =>
       \A u \in Users :
         (sessions[u] # NoSession /\ ~\E i \in Slots : BodyStep(i, "create", u)) =>
           sessions'[u] = sessions[u]
  /\ \A i \in Slots, u \in Users :
       (/\ BodyStep(i, "get", u)
        /\ sessions[u] # NoSession
        /\ sessions[u].video_id \notin CacheKeys(transcriptCache)) =>
         /\ ops'[i].ret # Null
         /\ ops'[i].ret.transcript = sessions[u].transcript
         /\ ops'[i].ret.video_id = sessions[u].video_id
         /\ ops'[i].ret.history = sessions[u].history
         /\ sessions'[u] = ops'[i].ret

C20_SessionsSurviveCache == [][C20_Step]_vars

\* a lookup has just purged the expired transcript of one user's session,
\* which has a history, while the transcript of the other user's session is
\* within its ttl and was evicted from the cache
C20_Witness ==
  \E u, w \in Users :
    /\ sessions[u] # NoSession /\ sessions[w] # NoSession
    /\ last.op = "getCached"
    /\ last.log = "Cached transcript expired"
    /\ last.key = sessions[u].video_id
    /\ sessions[u].history # <<>>
    /\ sessions[w].video_id \notin CacheKeys(transcriptCache)
    /\ ~CacheExpired(sessions[w].transcript, now)


\* C21: the URL handler calls the transcript fetcher for a video only when the
\* transcript cache holds no transcript of that video within its ttl.
C21_Step ==
  \A u \in Users :
    (url[u].pc = "fetching" /\ url'[u] # url[u]) =>
      getCachedTranscriptResult(transcriptCache, url[u].videoId, now) = Null

C21_CachedNotRefetched == [][C21_Step]_vars

\* C22: with an overlap o smaller than the chunk size w, over n words, the i-th
\* chunk starts at word (i-1)*(w-o), the first at 0; every chunk but the last
\* holds exactly w words; the next chunk starts o words before the end of the
\* current one; the last chunk ends at word n; each chunk's text is its words.
C22_OverlappingWindows ==
  (pure.fn = "chunkTranscript" /\ pure.pc = "done"
     /\ pure.chunkOverlap < pure.chunkSize) =>
    LET c == pure.chunks
        n == Len(pure.words)
        w == pure.chunkSize
        o == pure.chunkOverlap
    IN /\ c # <<>>
       /\ c[1].startIndex = 0
       /\ c[Len(c)].endIndex = n
       /\ \A i \in 1..Len(c) :
            /\ c[i].startIndex = (i - 1) * (w - o)
            /\ c[i].text = join(SubSeq(pure.words, c[i].startIndex + 1, c[i].endIndex))
       /\ \A i \in 1..(Len(c) - 1) :
            /\ c[i].endIndex - c[i].startIndex = w
            /\ c[i + 1].startIndex = c[i].endIndex - o

\* a text was cut into three chunks or more that overlap, the last one shorter
\* than the chunk size
C22_Witness ==
  /\ pure.fn = "chunkTranscript" /\ pure.pc = "done"
  /\ pure.chunkOverlap > 0
  /\ Len(pure.chunks) >= 3
  /\ LET l == pure.chunks[Len(pure.chunks)]
     IN l.endIndex - l.startIndex < pure.chunkSize

FiveWords == <<"w", " ", "w", " ", "w", " ", "w", " ", "w">>

\* C30: with an overlap smaller than the chunk size, chunkTranscript terminates
\* on every text; it returns at least one chunk, exactly one when the text has
\* no more words than the chunk size; every chunk has endIndex > startIndex, and
\* only the last chunk ends at the last word.  Five words with chunk size 3 and
\* overlap 1 give the chunks of words 1-3 and 3-5.
C30_Returned ==
  (pure.fn = "chunkTranscript" /\ pure.pc = "done"
     /\ pure.chunkOverlap < pure.chunkSize) =>
    LET c == pure.chunks
        n == Len(pure.words)
    IN /\ Len(c) >= 1
       /\ n <= pure.chunkSize => Len(c) = 1
       /\ \A i \in 1..Len(c) :
            /\ c[i].endIndex > c[i].startIndex
            /\ c[i].endIndex = n <=> i = Len(c)
       /\ (pure.text = FiveWords /\ pure.chunkSize = 3 /\ pure.chunkOverlap = 1) =>
            c = << [text |-> <<"w", " ", "w", " ", "w">>, startIndex |-> 0, endIndex |-> 3],
                   [text |-> <<"w", " ", "w", " ", "w">>, startIndex |-> 2, endIndex |-> 5] >>

C30_Terminates ==
  /\ []C30_Returned
  /\ (pure.fn = "chunkTranscript" /\ pure.chunkOverlap < pure.chunkSize)
       ~> (pure.fn = "chunkTranscript" /\ pure.pc = "done")

\* the five words were cut into two chunks under chunk size 3 and overlap 1
C30_Witness ==
  /\ pure.fn = "chunkTranscript" /\ pure.pc = "done"
  /\ pure.text = FiveWords
  /\ pure.chunkSize = 3 /\ pure.chunkOverlap = 1
  /\ Len(pure.chunks) = 2

\* the texts of a list one after the other
RECURSIVE Concat(_)
Concat(ss) == IF ss = <<>> THEN <<>> ELSE Head(ss) \o Concat(Tail(ss))

\* C24: the chunks TranscriptFetcher.chunkTranscript returns for a text and a
\* positive chunk size s give the text back when joined in order; every chunk
\* but the last has s characters, the last at most s; a text of at most s
\* characters gives the one chunk that is the text, and a text of L > 0
\* characters gives ceil(L/s) chunks.
C24_SegmentsRoundTrip ==
  pure.fn = "fetcherChunkTranscript" =>
    LET r == pure.ret
        L == Len(pure.text)
        sz == pure.chunkSize
    IN /\ Concat(r) = pure.text
       /\ r # <<>>
       /\ \A i \in 1..(Len(r) - 1) : Len(r[i]) = sz
       /\ Len(r[Len(r)]) <= sz
       /\ L <= sz => r = <<pure.text>>
       /\ L > 0 => Len(r) = (L + sz - 1) \div sz

\* a text of blanks and letters was cut into three chunks or more, the last one
\* shorter than the chunk size
C24_Witness ==
  /\ pure.fn = "fetcherChunkTranscript"
  /\ Len(pure.ret) >= 3
  /\ Len(pure.ret[Len(pure.ret)]) < pure.chunkSize
  /\ Cardinality(Range(pure.text)) = 2

\* the words of a text: its runs of word characters, in lower case
WordsOf(text) ==
  SelectSeq(split(stripPunctuation(toLowerCase(text))), LAMBDA w : w # <<>>)

\* the keywords of a question: its words longer than two characters that are
\* no stop words
KeywordsOf(question) ==
  {w \in Range(WordsOf(question)) : Len(w) > 2 /\ w \notin stopWords}

\* the number of whole-word occurrences of the keywords in the text
RECURSIVE Occurrences(_, _)
Occurrences(text, keywords) ==
  IF keywords = {} THEN 0
  ELSE LET kw == CHOOSE w \in keywords : TRUE
           words == WordsOf(text)
       IN Cardinality({i \in 1..Len(words) : words[i] = kw})
            + Occurrences(text, keywords \ {kw})

\* how often the chunk c stands in the list
CountIn(c, list) == Cardinality({i \in 1..Len(list) : list[i] = c})

\* C25: findRelevantChunks returns at most maxRelevantChunks chunks; each of
\* them is a chunk of the list it was given, unchanged, and none is returned
\* more often than it stands in that list.
C25_BoundedSelection ==
  pure.fn = "findRelevantChunks" =>
    /\ Len(pure.ret) <= maxRelevantChunks
    /\ \A j \in 1..Len(pure.ret) :
         /\ pure.ret[j] \in Range(pure.chunks)
         /\ CountIn(pure.ret[j], pure.ret) <= CountIn(pure.ret[j], pure.chunks)

\* more chunks than maxRelevantChunks hold a keyword of the question, and
\* maxRelevantChunks of them were returned
C25_Witness ==
  /\ pure.fn = "findRelevantChunks"
  /\ KeywordsOf(pure.question) # {}
  /\ Cardinality({i \in 1..Len(pure.chunks) :
                    Occurrences(pure.chunks[i].text, KeywordsOf(pure.question)) > 0})
       > maxRelevantChunks
  /\ Len(pure.ret) = maxRelevantChunks

\* C26: for a question all of whose words are at most two characters long or
\* stop words, findRelevantChunks returns the first min(maxRelevantChunks, n)
\* of the n chunks in their order; the result is empty only for an empty list.
C26_NoKeywordFallback ==
  (pure.fn = "findRelevantChunks"
     /\ \A w \in Range(WordsOf(pure.question)) : Len(w) <= 2 \/ w \in stopWords) =>
    /\ pure.ret = SubSeq(pure.chunks, 1, Min(maxRelevantChunks, Len(pure.chunks)))
    /\ pure.ret = <<>> <=> pure.chunks = <<>>

\* a question of stop words only was asked about more than maxRelevantChunks
\* chunks, and maxRelevantChunks chunks came back
C26_Witness ==
  /\ pure.fn = "findRelevantChunks"
  /\ WordsOf(pure.question) # <<>>
  /\ KeywordsOf(pure.question) = {}
  /\ Len(pure.chunks) > maxRelevantChunks
  /\ Len(pure.ret) = maxRelevantChunks

C28_TopScores ==
  (pure.fn = "findRelevantChunks" /\ KeywordsOf(pure.question) # {}) =>
    LET n == Len(pure.chunks)
        r == pure.ret
        score == [i \in 1..n |->
                    Occurrences(pure.chunks[i].text, KeywordsOf(pure.question))]
    IN \E f \in [1..Len(r) -> 1..n] :
         /\ \A j \in 1..Len(r) : r[j] = pure.chunks[f[j]] /\ score[f[j]] > 0
         /\ \A j, k \in 1..Len(r) :
              j < k => \/ score[f[j]] > score[f[k]]
                       \/ score[f[j]] = score[f[k]] /\ f[j] < f[k]
         /\ \A i \in 1..n :
              (score[i] > 0 /\ \A j \in 1..Len(r) : f[j] # i) =>
                /\ Len(r) = maxRelevantChunks
                /\ \A j \in 1..Len(r) :
                     \/ score[f[j]] > score[i]
                     \/ score[f[j]] = score[i] /\ f[j] < i

\* two different chunks of equal score were returned ahead of a chunk of a
\* lower score, the first chunk of the list was overtaken, and a chunk holding
\* a keyword was left out
C28_Witness ==
  /\ pure.fn = "findRelevantChunks"
  /\ Len(pure.ret) = maxRelevantChunks
  /\ LET score(c) == Occurrences(c.text, KeywordsOf(pure.question))
     IN /\ score(pure.ret[1]) = score(pure.ret[2])
        /\ pure.ret[1] # pure.ret[2]
        /\ score(pure.ret[2]) > score(pure.ret[3])
        /\ score(pure.chunks[1]) > 0
        /\ score(pure.chunks[1]) < score(pure.ret[1])
        /\ Cardinality({i \in 1..Len(pure.chunks) : score(pure.chunks[i]) > 0})
             > maxRelevantChunks

\* C29: routeMessage makes a message that starts with "/" a command, whatever
\* the session state: the command is the text between the slash and the first
\* blank, in lower case.  Any other message that holds a YouTube link is a
\* youtube_url with the 11-character video id of the link, whatever the
\* session state.  Any other message is a question holding the message as it
\* is when the session is ACTIVE, usage_instructions when there is NO_SESSION,
\* and no_session_error when the session is EXPIRED.
C29_RoutePriority ==
  pure.fn = "routeMessage" =>
    LET m == pure.message
        r == pure.ret
        blanks == {k \in 1..Len(m) : m[k] = " "}
        stop == IF blanks = {} THEN Len(m) + 1
                ELSE CHOOSE k \in blanks : \A j \in blanks : k <= j
    IN IF Len(m) > 0 /\ m[1] = "/"
         THEN /\ r.type = "command"
              /\ r.command = toLowerCase(SubSeq(m, 2, stop - 1))
       ELSE IF isYouTubeUrl(m)
         THEN /\ r.type = "youtube_url"
              /\ Len(r.videoId) = 11
              /\ \A i \in 1..Len(r.videoId) : IsIdChar(r.videoId[i])
              /\ \E k \in 1..Len(m) : SubSeq(m, k, k + 10) = r.videoId
       ELSE /\ pure.sessionState = "ACTIVE" => r.type = "question" /\ r.question = m
            /\ pure.sessionState = "NO_SESSION" => r.type = "usage_instructions"
            /\ pure.sessionState = "EXPIRED" => r.type = "no_session_error"

\* a message that starts with a slash and holds a link was routed as the
\* command help while the session was expired
C29_Witness ==
  /\ pure.fn = "routeMessage"
  /\ pure.sessionState = "EXPIRED"
  /\ Len(pure.message) > 0
  /\ pure.message[1] = "/"
  /\ isYouTubeUrl(pure.message)
  /\ pure.ret.type = "command"
  /\ pure.ret.command = <<"h", "e", "l", "p">>

\* C31: the sweep looks at and removes the session of a user while it holds the
\* mutex of that user.
C31_Step ==
  \A u \in Users :
    (last'.op = "sweep" /\ u \in last'.ret) => u \in cleanupLocks

C31_SweepUnderLock == [][C31_Step]_vars

\* C31, amended: the sweep acquires no mutex.  It runs only when no call is
\* inside or queued on any mutex, leaves every mutex and every call as it is,
\* and touches the session and the lock-table entry of the removed users only.
C31_FreeStep ==
  last'.op = "sweep" =>
    /\ cleanupLocks = {}
    /\ \A i \in Slots : ~InCriticalSection(i) /\ ops[i].pc # "waiting"
    /\ mutex' = mutex
    /\ ops' = ops
    /\ \A u \in Users \ last'.ret :
         sessions'[u] = sessions[u] /\ userLocks'[u] = userLocks[u]
    /\ \A u \in last'.ret : sessions'[u] = NoSession /\ userLocks'[u] = NoLock

C31_SweepLockFree == [][C31_FreeStep]_vars

\* a sweep has removed the session and the lock of one user and left those of
\* the other user
C31_Witness ==
  /\ last.op = "sweep"
  /\ \E u \in last.ret, w \in Users \ last.ret :
       /\ userLocks[u] = NoLock
       /\ sessions[w] # NoSession
       /\ userLocks[w] # NoLock

\* C32: while a handler waits for a collaborator (the transcript fetch, the
\* answer with its chunking and ranking, the translation, the summary), no call
\* it made on the ContextManager is in flight, so it holds no mutex; and a step
\* made with a mutex held (a callback, a release) starts no collaborator.
C32_Outside ==
  \A u \in Users :
    url[u].pc \in {"fetching", "answering"} =>
      \A i \in Slots :
        (ops[i].user = u /\ ops[i].kind \in {"get", "update"}) => ~InFlight(i)

C32_LockedStep ==
  (\E i \in Slots : InCriticalSection(i) /\ ops'[i] # ops[i])
    => /\ fetched' = fetched
       /\ \A u \in Users : url'[u].pc = url[u].pc

C32_NoSuspensionInLock == []C32_Outside /\ [][C32_LockedStep]_vars

\* handleQuestion waits for the answer after its getSession call has returned,
\* while the mutex of the user is held by the createSession call of a link
C32_Witness ==
  /\ url["u1"].pc = "answering"
  /\ \E i \in Slots : ops[i].kind = "create" /\ ops[i].user = "u1" /\ InCriticalSection(i)

\* C33: every call of createSession, getSession, updateHistory and clearSession
\* that was made runs to its end, also one that finds no session, and when no
\* call is in flight no mutex is locked and none has a waiter.
C33_Released ==
  MicrotasksDrained =>
    \A l \in LockIds : LockInUse(l) => (~mutex[l].locked /\ mutex[l].queue = <<>>)

C33_Completes ==
  /\ \A i \in Slots : InFlight(i) ~> ~InFlight(i)
  /\ []C33_Released

\* a getSession call that found no session has returned and still holds the
\* mutex, and another call of the user waits behind it
C33_Witness ==
  \E i, j \in Slots :
    /\ ops[i].kind = "get"
    /\ ops[i].pc = "ran"
    /\ ops[i].pre = NoSession
    /\ ops[j].pc = "waiting"
    /\ ops[j].lock = ops[i].lock

\* C34: after a sweep made while no call is in flight, every key of the lock
\* table is a user that has a session.
C34_Step ==
  (last'.op = "sweep" /\ MicrotasksDrained) =>
    \A u \in Users : userLocks'[u] # NoLock => sessions'[u] # NoSession

C34_LocksFollowSessions == [][C34_Step]_vars

\* C35: a plain text of a user whose session was last accessed more than 24
\* hours ago and has not been swept yet is answered with the message that the
\* session has expired, and is not handled as a question.
C35_Step ==
  \A u \in Users :
    (url[u].pc = "m_getting" /\ url'[u].pc # "m_getting" /\ url[u].stale)
      => last' = Sent(u, "session expired")

C35_ExpiredBeforeSweep == [][C35_Step]_vars

\* C36: when findRelevantChunks returns no chunk, answerQuestion returns the
\* sentence that the topic is not covered and makes no request to the provider;
\* a request is made only with at least one relevant chunk.
C36_NotCoveredWithoutProvider ==
  pure.fn = "answerQuestion" =>
    LET relevantChunks == findRelevantChunksIn(pure.question, pure.chunks)
    IN /\ relevantChunks = <<>> =>
            (pure.pc = "done" /\ pure.ret = NotCovered /\ ~pure.provider)
       /\ pure.provider => relevantChunks # <<>>
       /\ pure.pc = "completion" => pure.provider

\* a question with a keyword that no chunk of a transcript holds was answered
\* with the fixed sentence, without a request
C36_Witness ==
  /\ pure.fn = "answerQuestion"
  /\ pure.pc = "done"
  /\ pure.chunks # <<>>
  /\ extractKeywords(toLowerCase(pure.question)) # <<>>
  /\ pure.relevantChunks = <<>>
  /\ pure.ret = NotCovered
  /\ ~pure.provider

\* an attempt that ends the call at once: segments, or an error that says the
\* transcript is disabled or the video unavailable
Final(outcome) ==
  \/ outcome.data = "segments"
  \/ /\ outcome.data = "error"
     /\ \/ includes(outcome.message, DisabledNeedle)
        \/ includes(outcome.message, UnavailableNeedle)

\* C37: fetchTranscript makes at most maxRetries attempts; the first attempt
\* that succeeds, or that fails because the transcript is disabled or the video
\* unavailable, is the last one; it sleeps once between two attempts and not
\* after the last; and it ends, with the transcript or with a
\* TranscriptFetchError, which is FETCH_FAILED when the attempts are used up.
C37_Protocol ==
  pure.fn = "fetchTranscript" =>
    LET n == Len(pure.outcomes)
    IN /\ n <= maxRetries
       /\ \A k \in 1..(n - 1) : ~Final(pure.outcomes[k])
       /\ pure.pc = "attempt" => (n = pure.attempt /\ Len(pure.sleeps) = n)
       /\ pure.pc = "sleeping" => (n = pure.attempt + 1 /\ n < maxRetries
                                     /\ Len(pure.sleeps) = n)
       /\ pure.pc = "done" =>
            /\ n >= 1
            /\ Len(pure.sleeps) = n - 1
            /\ \A k \in 1..(n - 1) : pure.sleeps[k] = delayOf(k - 1)
            /\ IF pure.outcomes[n].data = "segments"
                 THEN pure.ret = [video_id |-> pure.videoId, fetched_at |-> now]
               ELSE IF includes(pure.outcomes[n].message, DisabledNeedle)
                 THEN pure.ret = TranscriptFetchError("TRANSCRIPT_DISABLED")
               ELSE IF includes(pure.outcomes[n].message, UnavailableNeedle)
                 THEN pure.ret = TranscriptFetchError("VIDEO_UNAVAILABLE")
               ELSE n = maxRetries /\ pure.ret = TranscriptFetchError("FETCH_FAILED")

C37_RetryProtocol ==
  /\ []C37_Protocol
  /\ (pure.fn = "fetchTranscript") ~> (pure.fn = "fetchTranscript" /\ pure.pc = "done")

\* the call has ended with FETCH_FAILED after maxRetries failed attempts and
\* maxRetries - 1 sleeps
C37_Witness ==
  /\ pure.fn = "fetchTranscript"
  /\ pure.pc = "done"
  /\ Len(pure.outcomes) = maxRetries
  /\ Len(pure.sleeps) = maxRetries - 1
  /\ pure.ret = TranscriptFetchError("FETCH_FAILED")

\* C38: an attempt that yields no transcript segments ends the call with a
\* TranscriptFetchError whose code is NO_TRANSCRIPT.
C38_Step ==
  (/\ pure.fn = "fetchTranscript"
   /\ pure.pc = "attempt"
   /\ Len(pure'.outcomes) = Len(pure.outcomes) + 1
   /\ pure'.outcomes[Len(pure'.outcomes)].data = "empty")
    => (pure'.pc = "done" /\ pure'.ret = TranscriptFetchError("NO_TRANSCRIPT"))

C38_NoTranscriptCode == [][C38_Step]_vars

\* C39: when fetchTranscript fails in handleYouTubeUrl, the handler ends with
\* the error message: it calls nothing on the ContextManager, so the session
\* map, the cache and the lock table stay as they are and getSession still
\* returns the session the user had; createSession is only called with a
\* transcript that a fetch of the handler returned.
C39_Step ==
  \A u \in Users :
    /\ (url[u].pc = "fetching" /\ url'[u].pc = "idle") =>
         /\ last' = Sent(u, "error")
         /\ ops' = ops
         /\ sessions' = sessions
         /\ transcriptCache' = transcriptCache
         /\ getSessionResult(sessions', u, now) = getSessionResult(sessions, u, now)
    /\ \A i \in Slots :
         (ops[i].kind # "create" /\ ops'[i].kind = "create" /\ ops'[i].user = u) =>
           /\ url[u].pc = "getting"
           /\ ops'[i].transcript # NoTranscript
           /\ ops'[i].transcript = url[u].transcript
           /\ ops'[i].videoId = ops'[i].transcript.video_id
           /\ \E k \in 1..Len(fetched) : fetched[k] = ops'[i].videoId

C39_SessionOnlyAfterFetch == [][C39_Step]_vars

\* the fetch of a second link of a user has just failed: the session of the
\* first video is still there, and nothing of the second video is cached
C39_Witness ==
  \E u \in Users :
    /\ last = Sent(u, "error")
    /\ url[u].pc = "idle"
    /\ sessions[u] # NoSession
    /\ sessions[u].video_id = "v1"
    /\ fetched[Len(fetched)] = "v2"
    /\ "v2" \notin CacheKeys(transcriptCache)
    /\ MicrotasksDrained

\* C40: every pair in the history of a session holds an answer drawn from the
\* transcript of the video of that session: a pair answered from the session
\* the user had before is not appended to the session that replaced it.
C40_PairsOfOwnVideo ==
  \A u \in Users :
    sessions[u] # NoSession =>
      \A k \in 1..Len(sessions[u].history) :
        sessions[u].history[k].answer = sessions[u].video_id

====
